---- MODULE Spec2Model ----
(***************************************************************************)
(* A model of the orchestration core of the MCP assistant: the Registry    *)
(* (core/registry.py), the EventBus (core/events.py), the Controller and    *)
(* its Session (core/controller.py) and the execution contract of the      *)
(* Agent and Tool base classes (agents/base.py, tools/base.py).            *)
(*                                                                         *)
(* Python values are represented as follows.                               *)
(*  - A str is a sequence of TLA+ strings whose concatenation is the text: *)
(*    text that the program splits or lower-cases is held one character    *)
(*    per element, a literal that is only prefixed is held as one chunk.    *)
(*  - None is the one-element sequence None, which no text produces.        *)
(*  - A dict is a function; a dict whose iteration order is read (the       *)
(*    name index of a category) is a sequence of [name, id] items in        *)
(*    insertion order.                                                      *)
(*  - uuid4() is the counter next_uuid: every call returns a value never    *)
(*    returned before.  Ids of different kinds of object are never          *)
(*    compared, so each kind has its own counter.  datetime.now() is the   *)
(*    counter now: every reading is later than the one before.              *)
(*  - A component instance is named by a one-element sequence; its class    *)
(*    decides how it can be called (HasAsyncEntry, HasExecuteAsync).        *)
(*  - An exception is an instance of Exception, held as its message; what   *)
(*    a component or a callback does when called (return or raise) is an    *)
(*    input of the call.                                                    *)
(***************************************************************************)
EXTENDS Integers, Sequences, FiniteSets, TLC

VARIABLES
    registry,            \* Registry: components, categories, agents, tools
    event_bus,           \* EventBus: subscriptions, event_history
    sessions,            \* Controller.sessions: session id -> Session.history
    current_session,     \* Controller.current_session (its session id)
    middleware_pipeline, \* Controller._middleware_pipeline
    agent_state,         \* per Agent instance: _dependencies_checked, tools, memory.history
    tool_state,          \* per Tool instance: permissions_checked, execution_history
    files,               \* the file system: path -> the text stored in the file
    loop_running,        \* the command loop of Controller.run_async has started
    in_flight,           \* the process_command call the command loop is awaiting, if any
    executing,           \* the Tool.execute and execute_async calls whose logic is running
    next_uuid,           \* the next value uuid4() returns, per kind of object it names
    now,                 \* the next value datetime.now() returns
    registered_with,     \* history variable: (category, name) -> component of the latest register call
    last_reg,            \* history variable: the most recent Registry call and what it returned
    issued,              \* history variable: the subscriptions subscribe() has returned, in order
    last_bus,            \* history variable: the most recent EventBus call
    last_cmd,            \* history variable: the most recent Controller.process_command call
    console,             \* history variable: the latest line the command loop read, what
                         \* handled it and what was printed, the number of lines read
                         \* and of process_command calls started
    last_exec,           \* history variable: the most recent direct Agent or Tool call
    written              \* history variable: path -> the content of the latest write call on the
                         \* path, while no append, delete or move has touched the path since

regVars == <<registry, registered_with, last_reg>>

busVars == <<event_bus, issued, last_bus>>

ctlVars == <<sessions, current_session, middleware_pipeline, loop_running, in_flight,
             last_cmd, console>>

compVars == <<agent_state, tool_state, files, now, last_exec, written, executing>>

vars == <<regVars, busVars, ctlVars, compVars, next_uuid>>

---------------------------------------------------------------------------
(* Bounds of the model.                                                    *)

\* ids Registry.register generates
MaxUuid == 2
\* subscribe calls on an EventBus
MaxSubscriptions == 2
\* publish calls on an EventBus with subscribers of every kind
MaxPublish == 2
\* publish calls on an EventBus whose history fills up
MaxLongPublish == 102
\* middleware registered with a Controller
MaxMiddleware == 2
\* subscribers listening to a Controller's events
MaxListeners == 1
\* process_command calls on a Controller
MaxCommands == 2
\* calls of one agent or tool whose history fills up
MaxExecutions == 52
\* of these, the calls whose logic raises
MaxFailures == 1
\* calls made on the FileTool itself
MaxFileCalls == 3
\* calls made on agents and tools of every kind
MaxDirectCalls == 2

\* lines the command loop reads
MaxLines == 3

\* publish calls on an EventBus whose history is read back, and the limits
\* passed to get_recent_events
MaxRecentPublish == 3
MaxLimit == 3

\* Tool.execute calls under way at a time, and made in all
MaxConcurrent == 2
MaxStepCalls == 3

---------------------------------------------------------------------------
(* Python values.                                                          *)

None == <<"<None>">>

\* bool(v) is False for None and for the empty str
Falsy(v) == v = None \/ v = <<>>

\* str(v): the text of a str is itself, of None it is "None"
Str(v) == IF v = None THEN <<"None">> ELSE v

\* a or b
PyOr(a, b) == IF Falsy(a) THEN b ELSE a

Put(f, k, v) == [x \in (DOMAIN f) \cup {k} |-> IF x = k THEN v ELSE f[x]]

Del(f, k) == [x \in (DOMAIN f) \ {k} |-> f[x]]

EmptyDict == [x \in {} |-> None]

\* dict.get(k) with the default None
Min(a, b) == IF a < b THEN a ELSE b

\* s without its first item: list.pop(0)
PopFirst(s) == SubSeq(s, 2, Len(s))

\* s without its item at index i: list.pop(i - 1)
PopAt(s, i) == SubSeq(s, 1, i - 1) \o SubSeq(s, i + 1, Len(s))

---------------------------------------------------------------------------
(* An insertion-ordered dict name -> id.                                    *)

ODHas(d, name) == \E i \in 1..Len(d) : d[i].name = name

ODIndex(d, name) == CHOOSE i \in 1..Len(d) : d[i].name = name

ODGet(d, name) == d[ODIndex(d, name)].id

\* d[name] = id: an existing key keeps its place, a new key goes last
ODSet(d, name, id) ==
    IF ODHas(d, name)
    THEN [d EXCEPT ![ODIndex(d, name)] = [name |-> name, id |-> id]]
    ELSE Append(d, [name |-> name, id |-> id])

\* list(d.keys())
ODKeys(d) == [i \in 1..Len(d) |-> d[i].name]

---------------------------------------------------------------------------
(* Registry (core/registry.py).                                            *)

\* component_id=None: register generates the id
NoId == 0

\* the (category, name) pairs and the instances the registry operations are
\* exercised with: two names in one category, one name in two categories
RegKeys == {<<"agent", <<"a">> >>, <<"agent", <<"b">> >>, <<"tool", <<"a">> >>}

RegComponents == {<<"X">>, <<"Y">>}

EmptyRegistry ==
    [components |-> EmptyDict, categories |-> EmptyDict,
     agents |-> EmptyDict, tools |-> EmptyDict]

\* Registry.register; uuid is the value uuid4() would return
RegistryRegister(reg, category, name, component, component_id, uuid) ==
    LET cid == IF component_id = NoId THEN uuid ELSE component_id
        entry == [id |-> cid, component |-> component, category |-> category]
        cats == IF category \in DOMAIN reg.categories
                THEN reg.categories
                ELSE Put(reg.categories, category, <<>>)
    IN  [components |-> Put(reg.components, cid, entry),
         categories |-> [cats EXCEPT ![category] = ODSet(@, name, cid)],
         agents |-> IF category = "agent" THEN Put(reg.agents, name, component)
                    ELSE reg.agents,
         tools |-> IF category = "tool" THEN Put(reg.tools, name, component)
                   ELSE reg.tools]

\* Registry.unregister: the registry afterwards
RegistryUnregister(reg, component_id) ==
    IF component_id \notin DOMAIN reg.components THEN reg
    ELSE
      LET entry == reg.components[component_id]
          inCat == entry.category \in DOMAIN reg.categories
          d == IF inCat THEN reg.categories[entry.category] ELSE <<>>
          hits == {i \in 1..Len(d) : d[i].id = component_id}
          \* the loop stops at the first name that maps to the id
          first == IF hits = {} THEN 0 ELSE CHOOSE i \in hits : \A j \in hits : i <= j
          name == IF first = 0 THEN <<>> ELSE d[first].name
      IN  [components |-> Del(reg.components, component_id),
           categories |-> IF first = 0 THEN reg.categories
                          ELSE [reg.categories EXCEPT ![entry.category] = PopAt(@, first)],
           agents |-> IF first # 0 /\ entry.category = "agent" /\ name \in DOMAIN reg.agents
                      THEN Del(reg.agents, name) ELSE reg.agents,
           tools |-> IF first # 0 /\ entry.category = "tool" /\ name \in DOMAIN reg.tools
                     THEN Del(reg.tools, name) ELSE reg.tools]

\* Registry.unregister: the value returned
RegistryUnregisterOk(reg, component_id) == component_id \in DOMAIN reg.components

\* Registry.get
RegistryGet(reg, component_id) ==
    IF component_id \in DOMAIN reg.components
    THEN reg.components[component_id].component
    ELSE None

\* Registry.get_by_name
GetByName(reg, category, name) ==
    IF category \notin DOMAIN reg.categories \/ ~ODHas(reg.categories[category], name)
    THEN None
    ELSE RegistryGet(reg, ODGet(reg.categories[category], name))

\* Registry.get_names
GetNames(reg, category) ==
    IF category \notin DOMAIN reg.categories THEN <<>>
    ELSE ODKeys(reg.categories[category])

\* Registry.get_agent, Registry.get_tool
GetAgent(reg, name) == GetByName(reg, "agent", name)

GetTool(reg, name) == GetByName(reg, "tool", name)

\* (category, name) is in the name index
IsRegistered(reg, category, name) ==
    category \in DOMAIN reg.categories /\ ODHas(reg.categories[category], name)

---------------------------------------------------------------------------
(* The state a call works on, and what a call gives back.                   *)
(* A world holds the objects a call can change; a result is the world      *)
(* after the call with either the value returned (exc = None) or the text   *)
(* of the exception that left the call (exc # None).                        *)

World == [bus |-> event_bus, agents |-> agent_state, tools |-> tool_state,
          fs |-> files, written |-> written,
          uuid |-> next_uuid, now |-> now, trace |-> <<>>]

Ret(w, v) == [w |-> w, exc |-> None, val |-> v]

Raise(w, msg) == [w |-> w, exc |-> msg, val |-> None]

\* one observable step of a call
Step(k, t, n) == [k |-> k, t |-> t, n |-> n]

Traced(w, k, t, n) == [w EXCEPT !.trace = Append(@, Step(k, t, n))]

---------------------------------------------------------------------------
(* EventBus (core/events.py).                                              *)

MaxHistorySize == 100

Wildcard == "*"

\* callbacks a subscriber can pass; cb_raise raises an Exception
Callbacks == {"cb_ok", "cb_raise"}

CallbackRaises(cb) == cb = "cb_raise"

CallbackError == <<"callback failed">>

EmptyBus == [subscriptions |-> EmptyDict, event_history |-> <<>>]

\* payload of an event: the data dict of the Event, held as the three values
\* the Controller puts in it (the agent, tool or command; the args; the
\* result, error or message)
EventData(name, args, payload) == [name |-> name, args |-> args, payload |-> payload]

NoData == EventData(<<>>, <<>>, None)

\* Event.__init__
NewEvent(type, data, uuid) == [id |-> uuid, type |-> type, data |-> data]

\* EventBus.subscribe: the subscription created
NewSubscription(event_type, callback, uuid) ==
    [id |-> uuid, event_type |-> event_type, callback |-> callback]

\* EventBus.subscribe: the bus afterwards
BusSubscribe(bus, sub) ==
    LET subs == IF sub.event_type \in DOMAIN bus.subscriptions
                THEN bus.subscriptions
                ELSE Put(bus.subscriptions, sub.event_type, <<>>)
    IN  [bus EXCEPT !.subscriptions = [subs EXCEPT ![sub.event_type] = Append(@, sub)]]

\* EventBus.unsubscribe: the index of the subscription in its bucket, 0 if absent
SubscriptionIndex(bus, sub) ==
    IF sub.event_type \notin DOMAIN bus.subscriptions THEN 0
    ELSE LET b == bus.subscriptions[sub.event_type]
             hits == {i \in 1..Len(b) : b[i].id = sub.id}
         IN  IF hits = {} THEN 0 ELSE CHOOSE i \in hits : \A j \in hits : i <= j

\* the bucket kept when its last subscription goes
BusUnsubscribeKeepBucket(bus, sub) ==
    LET i == SubscriptionIndex(bus, sub)
    IN  IF i = 0 THEN bus
        ELSE [bus EXCEPT !.subscriptions[sub.event_type] = PopAt(@, i)]

\* EventBus.unsubscribe: the bus afterwards
BusUnsubscribe(bus, sub) ==
    LET i == SubscriptionIndex(bus, sub)
    IN  IF i = 0 THEN bus
        ELSE LET b == PopAt(bus.subscriptions[sub.event_type], i)
             IN  [bus EXCEPT !.subscriptions =
                     IF b = <<>> THEN Del(@, sub.event_type)
                     ELSE [@ EXCEPT ![sub.event_type] = b]]

\* seq[-limit:]: from index len - limit on if limit > 0, from the start if that
\* index is not in the list; seq[-0:] is seq[0:], the whole list
LastOf(seq, limit) ==
    IF limit = 0 THEN seq
    ELSE IF limit > 0 THEN SubSeq(seq, Len(seq) - Min(limit, Len(seq)) + 1, Len(seq))
    ELSE SubSeq(seq, Min(0 - limit, Len(seq)) + 1, Len(seq))

\* the default of event_type, the Python None
NoType == "None"

\* EventBus.get_recent_events
GetRecentEvents(bus, event_type, limit) ==
    IF event_type \notin {NoType, ""}
    THEN LastOf(SelectSeq(bus.event_history, LAMBDA e : e.type = event_type), limit)
    ELSE LastOf(bus.event_history, limit)

\* self.subscriptions.get(event_type, [])
Bucket(bus, event_type) ==
    IF event_type \in DOMAIN bus.subscriptions THEN bus.subscriptions[event_type] ELSE <<>>

\* the wildcard subscribers put first
AllSubscribersWildcardFirst(bus, event_type) == Bucket(bus, Wildcard) \o Bucket(bus, event_type)

\* publish: all_subscribers = subscribers + wildcard_subscribers
AllSubscribers(bus, event_type) == Bucket(bus, event_type) \o Bucket(bus, Wildcard)

\* the newest event dropped instead of the oldest: pop() for pop(0)
StoreEventPopLast(history, event) ==
    LET h == Append(history, event)
    IN  IF Len(h) > MaxHistorySize THEN SubSeq(h, 1, Len(h) - 1) ELSE h

\* publish: the history with the event stored
StoreEvent(history, event) ==
    LET h == Append(history, event)
    IN  IF Len(h) > MaxHistorySize THEN PopFirst(h) ELSE h

\* callbacks that call back into the bus while an event is delivered:
\* cb_subscribe subscribes cb_ok to the type of the event, cb_unsubscribe
\* unsubscribes every subscription that receives the event, its own included
BusCallbacks == {"cb_subscribe", "cb_unsubscribe"}

\* bus.unsubscribe(s) for each of subs from index i on, inside a callback
RECURSIVE UnsubscribeEach(_, _, _)
UnsubscribeEach(w, subs, i) ==
    IF i > Len(subs) THEN w
    ELSE UnsubscribeEach(Traced([w EXCEPT !.bus = BusUnsubscribe(@, subs[i])],
                                "unsubscribed", subs[i].event_type, subs[i].id),
                         subs, i + 1)

\* bus.subscribe(event.type, cb_ok) inside a callback
SubscribeInside(w, event) ==
    Traced([w EXCEPT !.bus = BusSubscribe(@, NewSubscription(event.type, "cb_ok",
                                                             w.uuid.subscription)),
                     !.uuid.subscription = @ + 1],
           "subscribed", event.type, w.uuid.subscription)

\* the body of the callback
CallbackBody(w, sub, event) ==
    CASE sub.callback = "cb_subscribe" -> SubscribeInside(w, event)
      [] sub.callback = "cb_unsubscribe" ->
            UnsubscribeEach(w, Bucket(w.bus, event.type) \o Bucket(w.bus, Wildcard), 1)
      [] OTHER -> w

\* subscription.callback(event): the callback runs and returns or raises
InvokeCallback(w, sub, event) ==
    LET w1 == CallbackBody(Traced(w, "callback", sub.callback, sub.id), sub, event)
    IN  IF CallbackRaises(sub.callback)
        THEN Raise(Traced(w1, "callback_raised", sub.callback, sub.id), CallbackError)
        ELSE Ret(Traced(w1, "callback_returned", sub.callback, sub.id), None)

\* the loop without its try/except: the first exception ends it and leaves publish
RECURSIVE NotifyAllUnguarded(_, _, _, _)
NotifyAllUnguarded(w, subs, i, event) ==
    IF i > Len(subs) THEN Ret(w, None)
    ELSE LET r == InvokeCallback(w, subs[i], event)
         IN  IF r.exc # None THEN r ELSE NotifyAllUnguarded(r.w, subs, i + 1, event)

\* the loop passes over a subscription that a callback before it has
\* unsubscribed
RECURSIVE NotifyAllStillSubscribed(_, _, _, _)
NotifyAllStillSubscribed(w, subs, i, event) ==
    IF i > Len(subs) THEN Ret(w, None)
    ELSE IF SubscriptionIndex(w.bus, subs[i]) = 0
         THEN NotifyAllStillSubscribed(w, subs, i + 1, event)
         ELSE NotifyAllStillSubscribed(InvokeCallback(w, subs[i], event).w, subs, i + 1, event)

\* publish: the loop over all_subscribers from index i on; an exception of a
\* callback is caught and logged
RECURSIVE NotifyAll(_, _, _, _)
NotifyAll(w, subs, i, event) ==
    IF i > Len(subs) THEN Ret(w, None)
    ELSE LET r == InvokeCallback(w, subs[i], event)
         IN  NotifyAll(r.w, subs, i + 1, event)

\* publish: the event stored in the history
Stored(w, event) == [w EXCEPT !.bus.event_history = StoreEvent(@, event)]

\* publish: the return after the loop, r the outcome of the loop
Delivered(r, event) ==
    IF r.exc # None THEN r
    ELSE Ret(Traced(r.w, "publish_returned", event.type, event.id), None)

\* EventBus.publish
Publish(w, event) ==
    Delivered(NotifyAll(Stored(Traced(w, "publish", event.type, event.id), event),
                        AllSubscribers(w.bus, event.type), 1, event),
              event)

\* Event(type, data) is built, then published
PublishNew(w, type, data) ==
    Publish([w EXCEPT !.uuid.event = @ + 1], NewEvent(type, data, w.uuid.event))

---------------------------------------------------------------------------
(* Text: str.split, str.lower, shlex.split, parse_kwargs.                   *)

IsSpace(c) == c = " "

Quotes == {"'", "\""}

\* ch.lower() for the characters of the model's texts
LowerChar(c) ==
    CASE c = "G" -> "g"
      [] c = "H" -> "h"
      [] c = "F" -> "f"
      [] c = "L" -> "l"
      [] c = "Q" -> "q"
      [] c = "T" -> "t"
      [] OTHER -> c

\* s.lower()
Lower(s) == [i \in 1..Len(s) |-> LowerChar(s[i])]

\* the first index >= i of s that holds no whitespace (Len(s) + 1 if none)
RECURSIVE SkipSpace(_, _)
SkipSpace(s, i) == IF i <= Len(s) /\ IsSpace(s[i]) THEN SkipSpace(s, i + 1) ELSE i

\* the first index >= i of s that holds whitespace (Len(s) + 1 if none)
RECURSIVE SkipWord(_, _)
SkipWord(s, i) == IF i <= Len(s) /\ ~IsSpace(s[i]) THEN SkipWord(s, i + 1) ELSE i

\* s.split(maxsplit=n) from index i on: at most n words, then the rest of the
\* text without its leading whitespace
RECURSIVE SplitFrom(_, _, _)
SplitFrom(s, i, n) ==
    LET j == SkipSpace(s, i)
    IN  IF j > Len(s) THEN <<>>
        ELSE IF n = 0 THEN <<SubSeq(s, j, Len(s))>>
        ELSE LET e == SkipWord(s, j)
             IN  <<SubSeq(s, j, e - 1)>> \o SplitFrom(s, e, n - 1)

Split(s, maxsplit) == SplitFrom(s, 1, maxsplit)

\* shlex.split(s), POSIX rules, over texts without backslash: state is " "
\* between tokens, "a" inside a token, or the quote that is open
RECURSIVE Shlex(_, _, _, _, _)
Shlex(s, i, state, token, out) ==
    IF i > Len(s)
    THEN IF state \in Quotes THEN [ok |-> FALSE, tokens |-> <<>>]
         ELSE IF state = "a" THEN [ok |-> TRUE, tokens |-> Append(out, token)]
         ELSE [ok |-> TRUE, tokens |-> out]
    ELSE LET c == s[i]
         IN  IF state = " "
             THEN IF IsSpace(c) THEN Shlex(s, i + 1, " ", <<>>, out)
                  ELSE IF c \in Quotes THEN Shlex(s, i + 1, c, <<>>, out)
                  ELSE Shlex(s, i + 1, "a", <<c>>, out)
             ELSE IF state = "a"
             THEN IF IsSpace(c) THEN Shlex(s, i + 1, " ", <<>>, Append(out, token))
                  ELSE IF c \in Quotes THEN Shlex(s, i + 1, c, token, out)
                  ELSE Shlex(s, i + 1, "a", Append(token, c), out)
             ELSE IF c = state THEN Shlex(s, i + 1, "a", token, out)
                  ELSE Shlex(s, i + 1, state, Append(token, c), out)

ShlexSplit(s) == Shlex(s, 1, " ", <<>>, <<>>)

NoClosingQuotation == <<"No closing quotation">>

HasEquals(token) == \E i \in 1..Len(token) : token[i] = "="

FirstEquals(token) == CHOOSE i \in 1..Len(token) : token[i] = "=" /\ \A j \in 1..(i - 1) : token[j] # "="

\* re.sub(r'^["\']|["\']$', '', value): a quote at the start and one at the end go
StripQuotes(value) ==
    LET a == IF value # <<>> /\ value[1] \in Quotes THEN 2 ELSE 1
        b == IF Len(value) >= a /\ value[Len(value)] \in Quotes THEN Len(value) - 1 ELSE Len(value)
    IN  SubSeq(value, a, b)

\* parse_kwargs: the loop over the tokens
RECURSIVE KwargsOf(_, _, _)
KwargsOf(tokens, i, kwargs) ==
    IF i > Len(tokens) THEN kwargs
    ELSE LET t == tokens[i]
         IN  IF HasEquals(t)
             THEN LET e == FirstEquals(t)
                  IN  KwargsOf(tokens, i + 1,
                               Put(kwargs, SubSeq(t, 1, e - 1),
                                   StripQuotes(SubSeq(t, e + 1, Len(t)))))
             ELSE KwargsOf(tokens, i + 1, kwargs)

\* parse_kwargs after shlex.split, r its outcome
Parsed(w, r) ==
    IF r.ok THEN Ret(w, KwargsOf(r.tokens, 1, EmptyDict)) ELSE Raise(w, NoClosingQuotation)

\* utils.helpers.parse_kwargs: the dict, or the ValueError of shlex
ParseKwargs(w, arg_string) == Parsed(w, ShlexSplit(arg_string))

---------------------------------------------------------------------------
(* Component instances and their classes.                                  *)

HelpAgent == <<"HelpAgent">>
CodeAgent == <<"CodeAgent">>
DiagnosticsAgent == <<"DiagnosticsAgent">>
FileTool == <<"FileTool">>
CommandTool == <<"CommandTool">>
SpecsTool == <<"SpecsTool">>
N8nTool == <<"N8nTool">>
\* an object with a run method only, not derived from Agent
PlainAgent == <<"PlainAgent">>

AgentInstances == {HelpAgent, CodeAgent, DiagnosticsAgent}

ToolInstances == {FileTool, CommandTool, SpecsTool, N8nTool}

\* metadata.name
MetaName(inst) ==
    CASE inst = HelpAgent -> "help"
      [] inst = CodeAgent -> "code"
      [] inst = DiagnosticsAgent -> "diagnostics"
      [] inst = FileTool -> "file"
      [] inst = CommandTool -> "command"
      [] inst = SpecsTool -> "specs"
      [] inst = N8nTool -> "n8n"
      [] OTHER -> "plain"

\* metadata.required_tools
RequiredTools(inst) ==
    CASE inst = CodeAgent -> {"file", "command"}
      [] inst = DiagnosticsAgent -> {"specs", "command"}
      [] OTHER -> {}

\* metadata.required_permissions
RequiredPermissions(inst) ==
    CASE inst = FileTool -> {"file_access"}
      [] inst = CommandTool -> {"command_execution"}
      [] OTHER -> {}

\* metadata.supports_progress
SupportsProgress(inst) == inst = FileTool

\* the class defines _execute_async
HasExecuteAsync(inst) == inst \in {CodeAgent, FileTool}

\* hasattr(agent, 'run_async') / hasattr(tool, 'execute_async'): every Agent and
\* every Tool inherits the method
HasAsyncEntry(inst) == inst \in AgentInstances \cup ToolInstances

\* what the component's own logic (_execute, _execute_async, or run of a plain
\* object) does in one call: it returns a value or raises
Returns(v) == [kind |-> "return", value |-> v]

Raises(msg) == [kind |-> "raise", value |-> msg]

LogicError == <<"boom">>

AgentOutcomes == {Returns(<<"out">>), Returns(<<>>), Raises(LogicError)}

ToolOutcomes == {Returns(<<"out">>), Returns(None), Raises(LogicError)}

\* the logic is the one the model holds of the component: that of the FileTool
Logic == [kind |-> "logic", value |-> None]

---------------------------------------------------------------------------
(* Agent (agents/base.py).                                                 *)

AgentMaxHistory == 100

NewAgentState == [dependencies_checked |-> FALSE, tools |-> {}, history |-> <<>>]

\* the data dict of a memory entry, its absent keys None
MemoryData(input, output, error) == [input |-> input, output |-> output, error |-> error]

\* AgentMemory.add_to_history
AddToHistory(w, inst, entry_type, data) ==
    LET entry == [type |-> entry_type, timestamp |-> w.now, data |-> data]
        h == Append(w.agents[inst].history, entry)
    IN  [w EXCEPT !.agents[inst].history = IF Len(h) > AgentMaxHistory THEN PopFirst(h) ELSE h,
                  !.now = @ + 1]

\* the list of missing tools is not looked at
DependenciesMetAlways(w, inst) == TRUE

\* Agent.check_dependencies: the value returned
DependenciesMet(w, inst) == RequiredTools(inst) \subseteq w.agents[inst].tools

\* Agent.check_dependencies: the agent afterwards
CheckDependencies(w, inst) ==
    IF DependenciesMet(w, inst)
    THEN [w EXCEPT !.agents[inst].dependencies_checked = TRUE]
    ELSE w

MissingDependencies(inst) ==
    <<"Error: Agent ", MetaName(inst), " is missing required dependencies">>

AgentErrorText(inst, msg) == <<"Error in agent ", MetaName(inst), ": ">> \o msg

\* no except clause: an exception of the logic leaves the call
AgentLogicUncaught(w, inst, input_text, outcome) ==
    IF outcome.kind = "return"
    THEN Ret(AddToHistory(Traced(w, "finished", MetaName(inst), 0), inst, "result",
                          MemoryData(None, outcome.value, None)),
             outcome.value)
    ELSE Raise(Traced(w, "finished", MetaName(inst), 0), outcome.value)

\* run and run_async from the call of the logic on: the result or the error is
\* recorded, and a str goes back either way
AgentLogic(w, inst, input_text, outcome) ==
    IF outcome.kind = "return"
    THEN Ret(AddToHistory(Traced(w, "finished", MetaName(inst), 0), inst, "result",
                          MemoryData(None, outcome.value, None)),
             outcome.value)
    ELSE Ret(AddToHistory(Traced(w, "finished", MetaName(inst), 0), inst, "error",
                          MemoryData(input_text, None, outcome.value)),
             AgentErrorText(inst, outcome.value))

\* run and run_async after the dependency gate; how names the way the logic ran
AgentBody(w, inst, input_text, outcome, how) ==
    AgentLogic(Traced(AddToHistory(w, inst, "run", MemoryData(input_text, None, None)),
                      how, MetaName(inst), 0),
               inst, input_text, outcome)

\* the fallback without the try/except of run_async: an exception of _execute
\* leaves the call
AgentRunAsyncLeaky(w, inst, input_text, outcome) ==
    IF HasExecuteAsync(inst) \/ outcome.kind = "return" \/ ~DependenciesMet(w, inst)
    THEN IF ~w.agents[inst].dependencies_checked /\ ~DependenciesMet(w, inst)
         THEN Ret(w, MissingDependencies(inst))
         ELSE AgentBody(CheckDependencies(w, inst), inst, input_text, outcome, "execute_async")
    ELSE Raise(AgentBody(CheckDependencies(w, inst), inst, input_text, outcome,
                         "execute_in_worker").w,
               outcome.value)

\* Agent.register_tool: the agent afterwards
AgentRegisterTool(state, inst, name) == [state EXCEPT ![inst].tools = @ \cup {name}]

\* run without its dependency gate
AgentRunUngated(w, inst, input_text, outcome) ==
    AgentBody(w, inst, input_text, outcome, "execute")

\* run with the dependencies verified on every call
AgentRunVerifyPerCall(w, inst, input_text, outcome) ==
    IF ~DependenciesMet(w, inst)
    THEN Ret(w, MissingDependencies(inst))
    ELSE AgentBody(CheckDependencies(w, inst), inst, input_text, outcome, "execute")

\* Agent.run
AgentRun(w, inst, input_text, outcome) ==
    IF ~w.agents[inst].dependencies_checked /\ ~DependenciesMet(w, inst)
    THEN Ret(w, MissingDependencies(inst))
    ELSE AgentBody(IF w.agents[inst].dependencies_checked THEN w ELSE CheckDependencies(w, inst),
                   inst, input_text, outcome, "execute")

\* Agent.run_async: _execute_async if the class defines it, else _execute on a worker
AgentRunAsync(w, inst, input_text, outcome) ==
    IF ~w.agents[inst].dependencies_checked /\ ~DependenciesMet(w, inst)
    THEN Ret(w, MissingDependencies(inst))
    ELSE AgentBody(IF w.agents[inst].dependencies_checked THEN w ELSE CheckDependencies(w, inst),
                   inst, input_text, outcome,
                   IF HasExecuteAsync(inst) THEN "execute_async" ELSE "execute_in_worker")

---------------------------------------------------------------------------
(* FileTool (tools/file_tool.py): the actions read, write, append, delete   *)
(* and move on paths that name files of the working directory.  A file is   *)
(* held as the text stored in it.                                          *)

KeyAction == <<"a", "c", "t", "i", "o", "n">>

KeyPath == <<"p", "a", "t", "h">>

KeyContent == <<"c", "o", "n", "t", "e", "n", "t">>

KeyDestination == <<"d", "e", "s", "t", "i", "n", "a", "t", "i", "o", "n">>

\* kwargs.get(key, default)
Get(kwargs, key, default) == IF key \in DOMAIN kwargs THEN kwargs[key] ELSE default

\* os.linesep, of a POSIX system
LineSep == <<"\n">>

\* f.write(content) of a file opened in text mode: "\n" is stored as os.linesep
RECURSIVE EncodeText(_)
EncodeText(text) ==
    IF text = <<>> THEN <<>>
    ELSE (IF text[1] = "\n" THEN LineSep ELSE <<text[1]>>) \o EncodeText(Tail(text))

\* f.read() of a file opened in text mode: "\r\n" and "\r" are read as "\n"
RECURSIVE DecodeText(_)
DecodeText(stored) ==
    IF stored = <<>> THEN <<>>
    ELSE IF stored[1] = "\r"
    THEN <<"\n">> \o DecodeText(IF Len(stored) > 1 /\ stored[2] = "\n"
                                THEN SubSeq(stored, 3, Len(stored))
                                ELSE Tail(stored))
    ELSE <<stored[1]>> \o DecodeText(Tail(stored))

FileBothRequired == <<"[FileTool] Error: Both 'action' and 'path' parameters are required">>

FileDestinationRequired ==
    <<"[FileTool] Error: 'destination' parameter is required for move action">>

\* the text of the FileNotFoundError of open(path, "r"), as _execute returns it
FileNotFound(path) ==
    <<"[FileTool] Error: ", "[Errno 2] No such file or directory: '">> \o path \o <<"'">>

FileDoesNotExist(path) == <<"[FileTool] Error: ">> \o path \o <<" does not exist">>

\* FileTool._read_file
ReadFile(w, path) ==
    IF path \in DOMAIN w.fs THEN Ret(w, DecodeText(w.fs[path])) ELSE Ret(w, FileNotFound(path))

\* FileTool._write_file
WriteFile(w, path, content) ==
    Ret([w EXCEPT !.fs = Put(@, path, EncodeText(content)),
                  !.written = Put(@, path, content)],
        <<"[FileTool] Successfully wrote to ">> \o path)

\* FileTool._append_file
AppendFile(w, path, content) ==
    Ret([w EXCEPT !.fs = Put(@, path, Get(@, path, <<>>) \o EncodeText(content)),
                  !.written = Del(@, path)],
        <<"[FileTool] Successfully appended to ">> \o path)

\* FileTool._delete_file_or_dir
DeleteFile(w, path) ==
    IF path \in DOMAIN w.fs
    THEN Ret([w EXCEPT !.fs = Del(@, path), !.written = Del(@, path)],
             <<"[FileTool] Successfully deleted file ">> \o path)
    ELSE Ret(w, FileDoesNotExist(path))

\* FileTool._move_file_or_dir
MoveFile(w, source, destination) ==
    IF source \notin DOMAIN w.fs THEN Ret(w, FileDoesNotExist(source))
    ELSE Ret([w EXCEPT !.fs = Del(Put(@, destination, w.fs[source]), source),
                       !.written = Del(Del(@, destination), source)],
             <<"[FileTool] Successfully moved ">> \o source \o <<" to ">> \o destination)

\* _execute and _execute_async after the check of action and path
FileAction(w, action, path, kwargs) ==
    CASE action = <<"r", "e", "a", "d">> -> ReadFile(w, path)
      [] action = <<"w", "r", "i", "t", "e">> -> WriteFile(w, path, Get(kwargs, KeyContent, <<>>))
      [] action = <<"a", "p", "p", "e", "n", "d">> ->
            AppendFile(w, path, Get(kwargs, KeyContent, <<>>))
      [] action = <<"d", "e", "l", "e", "t", "e">> -> DeleteFile(w, path)
      [] action = <<"m", "o", "v", "e">> ->
            IF Falsy(Get(kwargs, KeyDestination, None)) THEN Ret(w, FileDestinationRequired)
            ELSE MoveFile(w, path, kwargs[KeyDestination])
      [] OTHER -> Ret(w, <<"[FileTool] Error: Unknown action '">> \o action \o <<"'">>)

\* FileTool._execute and FileTool._execute_async
FileLogic(w, kwargs) ==
    IF Falsy(Get(kwargs, KeyAction, None)) \/ Falsy(Get(kwargs, KeyPath, None))
    THEN Ret(w, FileBothRequired)
    ELSE FileAction(w, kwargs[KeyAction], kwargs[KeyPath], kwargs)

---------------------------------------------------------------------------
(* Tool (tools/base.py).                                                   *)

ToolMaxHistory == 50

NewToolState == [permissions_checked |-> FALSE, execution_history |-> <<>>]

ProgressKey == <<"progress_tracker">>

ProgressTracker == <<"ProgressTracker">>

\* Tool.check_permissions: the tool afterwards
CheckPermissions(state, inst, granted_permissions) ==
    IF RequiredPermissions(inst) \subseteq granted_permissions
    THEN [state EXCEPT ![inst].permissions_checked = TRUE]
    ELSE state

\* the newest record of the history replaced, whatever its id
UpdateRecordNewest(history, execution_id, updated) ==
    IF history = <<>> THEN history ELSE [history EXCEPT ![Len(history)] = updated]

\* the newest record dropped instead of the oldest: pop() for pop(0)
AddRecordPopLast(history, record) ==
    LET h == Append(history, record)
    IN  IF Len(h) > ToolMaxHistory THEN SubSeq(h, 1, Len(h) - 1) ELSE h

\* Tool._add_to_history
AddRecord(history, record) ==
    LET h == Append(history, record)
    IN  IF Len(h) > ToolMaxHistory THEN PopFirst(h) ELSE h

\* the first record still 'started' is replaced, whatever its id
UpdateRecordFirstStarted(history, execution_id, updated) ==
    LET hits == {i \in 1..Len(history) : history[i].status = "started"}
    IN  IF hits = {} THEN history
        ELSE [history EXCEPT ![CHOOSE i \in hits : \A j \in hits : i <= j] = updated]

\* Tool._update_history_record: the first record with the id is replaced
UpdateRecord(history, execution_id, updated) ==
    LET hits == {i \in 1..Len(history) : history[i].id = execution_id}
    IN  IF hits = {} THEN history
        ELSE [history EXCEPT ![CHOOSE i \in hits : \A j \in hits : i <= j] = updated]

\* the execution_record dict as execute creates it
StartedRecord(w, kwargs) ==
    [id |-> w.uuid.execution, timestamp |-> w.now, parameters |-> kwargs,
     status |-> "started", result |-> None, error |-> None, completed_at |-> 0]

\* execute: the record created and put in the history
ToolStarted(w, inst, kwargs) ==
    [w EXCEPT !.uuid.execution = @ + 1, !.now = @ + 1,
              !.tools[inst].execution_history = AddRecord(@, StartedRecord(w, kwargs))]

\* kwargs['progress_tracker'] = tracker writes into the dict the record holds
WithTracker(inst, kwargs) ==
    IF SupportsProgress(inst) THEN Put(kwargs, ProgressKey, ProgressTracker) ELSE kwargs

\* the record as the try block or the except clause leaves it
ClosedRecord(started, inst, outcome, clock) ==
    IF outcome.kind = "return"
    THEN [started EXCEPT !.parameters = WithTracker(inst, @), !.status = "completed",
                         !.result = IF outcome.value # None THEN Str(outcome.value) ELSE None,
                         !.completed_at = clock]
    ELSE [started EXCEPT !.parameters = WithTracker(inst, @), !.status = "failed",
                         !.error = outcome.value, !.completed_at = clock]

\* execute: the record updated in the history
ToolClosed(w, inst, started, outcome) ==
    [w EXCEPT !.now = @ + 1,
              !.tools[inst].execution_history =
                  UpdateRecord(@, started.id, ClosedRecord(started, inst, outcome, w.now))]

\* the except clause returns the error text instead of raising
ToolLogicSwallowed(w, inst, started, outcome) ==
    IF outcome.kind = "return"
    THEN Ret(ToolClosed(w, inst, started, outcome), outcome.value)
    ELSE Ret(ToolClosed(w, inst, started, outcome), outcome.value)

\* execute from the call of the logic on: the value goes back or the exception
\* is raised again
ToolLogic(w, inst, started, outcome) ==
    IF outcome.kind = "return"
    THEN Ret(ToolClosed(w, inst, started, outcome), outcome.value)
    ELSE Raise(ToolClosed(w, inst, started, outcome), outcome.value)

\* self._execute(**kwargs) or await self._execute_async(**kwargs): the logic of
\* the FileTool works on the file system, the logic of any other tool does what
\* the outcome says
ToolRan(w, inst, kwargs, outcome) ==
    IF outcome.kind = "logic" THEN FileLogic(w, kwargs)
    ELSE IF outcome.kind = "return" THEN Ret(w, outcome.value)
    ELSE Raise(w, outcome.value)

\* execute after the call of the logic, r its outcome
ToolFinished(r, inst, started) ==
    ToolLogic(Traced(r.w, "finished", MetaName(inst), started.id), inst, started,
              IF r.exc = None THEN Returns(r.val) ELSE Raises(r.exc))

\* execute and execute_async; how names the way the logic ran
ToolBody(w, inst, kwargs, outcome, how) ==
    ToolFinished(ToolRan(Traced(ToolStarted(w, inst, kwargs), how, MetaName(inst),
                                w.uuid.execution),
                         inst, WithTracker(inst, kwargs), outcome),
                 inst, StartedRecord(w, kwargs))

\* Tool.execute
ToolExecute(w, inst, kwargs, outcome) == ToolBody(w, inst, kwargs, outcome, "execute")

\* Tool.execute_async: _execute_async if the class defines it, else _execute on a worker
ToolExecuteAsync(w, inst, kwargs, outcome) ==
    ToolBody(w, inst, kwargs, outcome,
             IF HasExecuteAsync(inst) THEN "execute_async" ELSE "execute_in_worker")

---------------------------------------------------------------------------
(* Controller (core/controller.py).                                        *)

\* what a middleware does with the context it is given
MiddlewareKinds == {"pass", "set_response", "set_error", "raise"}

MiddlewareResponse == <<"handled by middleware">>

MiddlewareDenied == <<"denied">>

MiddlewareError == <<"middleware failed">>

\* the context dict of process_command, as far as the method reads it back
NewContext == [response |-> None, error |-> None]

\* a result that carries the context: of the pipeline and of the try block
Out(w, exc, ctx) == [w |-> w, exc |-> exc, val |-> ctx]

\* await middleware(context)
CallMiddleware(w, m, i, ctx) ==
    LET w1 == Traced(Traced(w, "middleware", m, i),
                     IF m = "raise" THEN "middleware_raised" ELSE "middleware_returned", m, i)
    IN  CASE m = "set_response" -> Out(w1, None, [ctx EXCEPT !.response = MiddlewareResponse])
          [] m = "set_error" -> Out(w1, None, [ctx EXCEPT !.error = MiddlewareDenied])
          [] m = "raise" -> Out(w1, MiddlewareError, ctx)
          [] OTHER -> Out(w1, None, ctx)

\* the pipeline run from its last middleware to its first
RECURSIVE RunPipelineReversed(_, _, _, _)
RunPipelineReversed(w, pipeline, i, ctx) ==
    IF i > Len(pipeline) THEN Out(w, None, ctx)
    ELSE LET r == CallMiddleware(w, pipeline[Len(pipeline) - i + 1], Len(pipeline) - i + 1, ctx)
         IN  IF r.exc # None THEN r
             ELSE IF ~Falsy(r.val.error) THEN r
             ELSE RunPipelineReversed(r.w, pipeline, i + 1, r.val)

\* process_command: the loop over the pipeline from index i on
RECURSIVE RunPipeline(_, _, _, _)
RunPipeline(w, pipeline, i, ctx) ==
    IF i > Len(pipeline) THEN Out(w, None, ctx)
    ELSE LET r == CallMiddleware(w, pipeline[i], i, ctx)
         IN  IF r.exc # None THEN r
             ELSE IF ~Falsy(r.val.error) THEN r
             ELSE RunPipeline(r.w, pipeline, i + 1, r.val)

UsageRun == <<"Usage: run <agent> <args>">>

UsageUse == <<"Usage: use tool <toolname> <args>">>

UnknownAgent(agent_name) == <<"Unknown agent: ">> \o agent_name

UnknownTool(tool_name) == <<"Unknown tool: ">> \o tool_name

UnknownCommand(command) == <<"Unknown command: ", command>>

RawInputKey == <<"raw_input">>

\* agent.run(args) of an object that is no Agent: its logic, unguarded
PlainRun(w, inst, input_text, outcome) ==
    LET w1 == Traced(Traced(w, "execute", MetaName(inst), 0), "finished", MetaName(inst), 0)
    IN  IF outcome.kind = "return" THEN Ret(w1, outcome.value) ELSE Raise(w1, outcome.value)

\* an except clause of _route_command after its event: raise
Reraise(e, exc) == IF e.exc # None THEN e ELSE Raise(e.w, exc)

\* _route_command, run branch: the except clause, f the call that raised
AgentFailed(f, agent_name, agent_args) ==
    Reraise(PublishNew(f.w, "agent.error", EventData(agent_name, agent_args, f.exc)), f.exc)

\* _route_command, run branch: the return, a the publish of after_run
AgentSucceeded(a, result, agent_name, agent_args) ==
    IF a.exc # None THEN AgentFailed(a, agent_name, agent_args) ELSE Ret(a.w, result)

\* the result left out of the data of after_run
AgentCalledWithoutResult(r, agent_name, agent_args) ==
    IF r.exc # None THEN AgentFailed(r, agent_name, agent_args)
    ELSE AgentSucceeded(PublishNew(r.w, "agent.after_run",
                                   EventData(agent_name, agent_args, None)),
                        r.val, agent_name, agent_args)

\* _route_command, run branch: after the call of the agent, r its outcome
AgentCalled(r, agent_name, agent_args) ==
    IF r.exc # None THEN AgentFailed(r, agent_name, agent_args)
    ELSE AgentSucceeded(PublishNew(r.w, "agent.after_run",
                                   EventData(agent_name, agent_args, r.val)),
                        r.val, agent_name, agent_args)

\* _route_command, run branch: the try block, b the publish of before_run
AgentAnnounced(b, agent, agent_name, agent_args, outcome) ==
    IF b.exc # None THEN b
    ELSE AgentCalled(IF HasAsyncEntry(agent)
                     THEN AgentRunAsync(b.w, agent, agent_args, outcome)
                     ELSE PlainRun(b.w, agent, agent_args, outcome),
                     agent_name, agent_args)

\* _route_command, run branch, the agent found: before_run, the call,
\* after_run or error
DispatchAgent(w, agent, agent_name, agent_args, outcome) ==
    AgentAnnounced(PublishNew(w, "agent.before_run", EventData(agent_name, agent_args, None)),
                   agent, agent_name, agent_args, outcome)

\* the lookup of the run branch after before_run went out, b its publish
LookedUpLate(b, reg, agent_name, agent_args, outcome) ==
    IF Falsy(GetAgent(reg, agent_name))
    THEN Ret(Traced(b.w, "lookup", "agent", 0), UnknownAgent(agent_name))
    ELSE AgentAnnounced(b, GetAgent(reg, agent_name), agent_name, agent_args, outcome)

\* before_run is published before the agent is looked up
RunAgentAnnounceFirst(w, reg, agent_name, agent_args, outcome) ==
    LookedUpLate(PublishNew(w, "agent.before_run", EventData(agent_name, agent_args, None)),
                 reg, agent_name, agent_args, outcome)

\* _route_command, run branch, from the lookup on
RunAgent(w, reg, agent_name, agent_args, outcome) ==
    IF Falsy(GetAgent(reg, agent_name))
    THEN Ret(Traced(w, "lookup", "agent", 0), UnknownAgent(agent_name))
    ELSE DispatchAgent(Traced(w, "lookup", "agent", 0), GetAgent(reg, agent_name),
                       agent_name, agent_args, outcome)

\* the except clause without its event
ToolFailedQuiet(f, tool_name, tool_args) == Raise(f.w, f.exc)

\* _route_command, use branch: the except clause, f the call that raised
ToolFailed(f, tool_name, tool_args) ==
    Reraise(PublishNew(f.w, "tool.error", EventData(tool_name, tool_args, f.exc)), f.exc)

\* _route_command, use branch: the return, a the publish of after_use
ToolSucceeded(a, result, tool_name, tool_args) ==
    IF a.exc # None THEN ToolFailed(a, tool_name, tool_args) ELSE Ret(a.w, result)

\* after_use is published whatever the outcome of the call
ToolCalledAlwaysAfter(r, tool_name, tool_args) ==
    ToolSucceeded(PublishNew(r.w, "tool.after_use", EventData(tool_name, tool_args, r.val)),
                  r.val, tool_name, tool_args)

\* _route_command, use branch: after the call of the tool, r its outcome
ToolCalled(r, tool_name, tool_args) ==
    IF r.exc # None THEN ToolFailed(r, tool_name, tool_args)
    ELSE ToolSucceeded(PublishNew(r.w, "tool.after_use",
                                  EventData(tool_name, tool_args, r.val)),
                       r.val, tool_name, tool_args)

\* if not kwargs and tool_args: kwargs = {"raw_input": tool_args}
KwargsOrRaw(kwargs, tool_args) ==
    IF DOMAIN kwargs = {} /\ tool_args # <<>> THEN Put(EmptyDict, RawInputKey, tool_args)
    ELSE kwargs

\* _route_command, use branch: after parse_kwargs, k its outcome
ToolParsed(k, tool, tool_name, tool_args, outcome) ==
    IF k.exc # None THEN ToolFailed(k, tool_name, tool_args)
    ELSE ToolCalled(ToolExecuteAsync(k.w, tool, KwargsOrRaw(k.val, tool_args), outcome),
                    tool_name, tool_args)

\* _route_command, use branch: the try block, b the publish of before_use
ToolAnnounced(b, tool, tool_name, tool_args, outcome) ==
    IF b.exc # None THEN b
    ELSE ToolParsed(ParseKwargs(b.w, tool_args), tool, tool_name, tool_args, outcome)

\* _route_command, use branch, the tool found: before_use, parsing, the call,
\* after_use or error
DispatchTool(w, tool, tool_name, tool_args, outcome) ==
    ToolAnnounced(PublishNew(w, "tool.before_use", EventData(tool_name, tool_args, None)),
                  tool, tool_name, tool_args, outcome)

\* _route_command, use branch, from the lookup on
UseTool(w, reg, tool_name, tool_args, outcome) ==
    IF Falsy(GetTool(reg, tool_name))
    THEN Ret(Traced(w, "lookup", "tool", 0), UnknownTool(tool_name))
    ELSE DispatchTool(Traced(w, "lookup", "tool", 0), GetTool(reg, tool_name),
                      tool_name, tool_args, outcome)

\* the run branch of _route_command after args.split(maxsplit=1)
RouteRun(w, reg, parts, outcome) ==
    IF Len(parts) < 1 THEN Ret(w, UsageRun)
    ELSE RunAgent(w, reg, Lower(parts[1]), IF Len(parts) > 1 THEN parts[2] ELSE <<>>, outcome)

\* the use branch of _route_command after args.split(maxsplit=2)
RouteUse(w, reg, parts, outcome) ==
    IF Len(parts) < 2 \/ parts[1] # <<"t", "o", "o", "l">> THEN Ret(w, UsageUse)
    ELSE UseTool(w, reg, Lower(parts[2]), IF Len(parts) > 2 THEN parts[3] ELSE <<>>, outcome)

\* Controller._route_command
RouteCommand(w, reg, command, args, outcome) ==
    IF command = "run" THEN RouteRun(Traced(w, "route", command, 0), reg, Split(args, 1), outcome)
    ELSE IF command = "use"
    THEN RouteUse(Traced(w, "route", command, 0), reg, Split(args, 2), outcome)
    ELSE Ret(Traced(w, "route", command, 0), UnknownCommand(command))

\* process_command: context['response'] = await self._route_command(...), r the
\* outcome of the router
Routed(r, ctx) ==
    IF r.exc # None THEN Out(r.w, r.exc, ctx)
    ELSE Out(r.w, None, [ctx EXCEPT !.response = r.val])

\* process_command: the try block after the loop, p the outcome of the loop
AfterPipeline(p, reg, command, args, outcome) ==
    IF p.exc # None THEN p
    ELSE IF Falsy(p.val.response) /\ Falsy(p.val.error)
    THEN Routed(RouteCommand(p.w, reg, command, args, outcome), p.val)
    ELSE p

\* process_command: the try block
TryCommand(w, pipeline, reg, command, args, outcome) ==
    AfterPipeline(RunPipeline(w, pipeline, 1, NewContext), reg, command, args, outcome)

\* process_command: the except clause after its publish e, r the try block
Caught(e, r) == Out(e.w, e.exc, [r.val EXCEPT !.error = r.exc])

\* no except clause: the exception leaves process_command
CatchNothing(r, command, args) == r

\* process_command: the except clause, applied to the outcome of the try block
Catch(r, command, args) ==
    IF r.exc = None THEN r
    ELSE Caught(PublishNew(r.w, "error", EventData(<<command>>, args, r.exc)), r)

\* the history entry of a call with this context
HistoryEntry(command, args, ctx) ==
    [command |-> command, args |-> args, response |-> ctx.response, error |-> ctx.error,
     timestamp |-> 0]

\* the new entry put first
SessionAddFirst(history, entry, clock) == <<[entry EXCEPT !.timestamp = clock]>> \o history

\* Session.add_to_history
SessionAdd(history, entry, clock) == Append(history, [entry EXCEPT !.timestamp = clock])

\* context.get('response') or f"Error: {context.get('error')}"
Returned(ctx) == PyOr(ctx.response, <<"Error: ">> \o Str(ctx.error))

\* process_command after the try statement, r its outcome: the history entry
\* is written and the value returned, unless an exception is on its way out
Finish(r, command, args) ==
    IF r.exc # None
    THEN [w |-> r.w, exc |-> r.exc, wrote |-> FALSE,
          entry |-> HistoryEntry(command, args, r.val), val |-> None]
    ELSE [w |-> r.w, exc |-> None, wrote |-> TRUE,
          entry |-> HistoryEntry(command, args, r.val), val |-> Returned(r.val)]

\* Controller.process_command: the world afterwards, the exception that left it
\* if one did, the history entry it wrote and the value it returned
ProcessCommand(w, pipeline, reg, command, args, outcome) ==
    Finish(Catch(TryCommand(w, pipeline, reg, command, args, outcome), command, args),
           command, args)

---------------------------------------------------------------------------
(* Registry calls.                                                         *)

NoCall == "init"

InitLastReg == [op |-> NoCall, id |-> NoId, ok |-> TRUE]

\* ids a caller passes to register as component_id: the ids register has given
\* out so far, still registered or not (an id never seen before acts as a
\* generated one does)
SuppliedIds == 1..(next_uuid.component - 1)

Register(category, name, component, component_id) ==
    /\ component_id = NoId => next_uuid.component <= MaxUuid
    /\ registry' = RegistryRegister(registry, category, name, component,
                                    component_id, next_uuid.component)
    /\ next_uuid' = IF component_id = NoId
                    THEN [next_uuid EXCEPT !.component = @ + 1]
                    ELSE next_uuid
    /\ registered_with' = Put(registered_with, <<category, name>>, component)
    /\ last_reg' = [op |-> "register", ok |-> TRUE,
                    id |-> IF component_id = NoId THEN next_uuid.component ELSE component_id]
    /\ UNCHANGED <<busVars, ctlVars, compVars>>

Unregister(component_id) ==
    /\ registry' = RegistryUnregister(registry, component_id)
    /\ last_reg' = [op |-> "unregister", id |-> component_id,
                    ok |-> RegistryUnregisterOk(registry, component_id)]
    /\ UNCHANGED <<registered_with, busVars, ctlVars, compVars, next_uuid>>

---------------------------------------------------------------------------
(* EventBus calls.                                                         *)

NoSub == NewSubscription("", "", 0)

NoEvent == NewEvent("", NoData, 0)

\* a subscription this bus never made: the subscribe call of another bus
\* returned it
ForeignSub == NewSubscription("error", "cb_ok", 0)

InitLastBus ==
    [op |-> NoCall, sub |-> NoSub, event |-> NoEvent, ok |-> TRUE,
     exc |-> None, trace |-> <<>>, subscribers |-> <<>>,
     filter |-> NoType, limit |-> 0, events |-> <<>>]

\* the event types the bus is exercised with: two of the Controller's, and the
\* text of the wildcard itself
BusEventTypes == {"error", "agent.before_run", Wildcard}

Subscribe(event_type, callback) ==
    /\ next_uuid.subscription <= MaxSubscriptions
    /\ LET sub == NewSubscription(event_type, callback, next_uuid.subscription)
       IN  /\ event_bus' = BusSubscribe(event_bus, sub)
           /\ issued' = Append(issued, sub)
           /\ last_bus' = [InitLastBus EXCEPT !.op = "subscribe", !.sub = sub]
    /\ next_uuid' = [next_uuid EXCEPT !.subscription = @ + 1]
    /\ UNCHANGED <<regVars, ctlVars, compVars>>

Unsubscribe(sub) ==
    /\ event_bus' = BusUnsubscribe(event_bus, sub)
    /\ last_bus' = [InitLastBus EXCEPT !.op = "unsubscribe", !.sub = sub,
                                       !.ok = (SubscriptionIndex(event_bus, sub) # 0)]
    /\ UNCHANGED <<issued, regVars, ctlVars, compVars, next_uuid>>

\* the subscriptions the callbacks of a call made, in order
SubscribedInside(trace) ==
    LET c == SelectSeq(trace, LAMBDA e : e.k = "subscribed")
    IN  [i \in 1..Len(c) |-> NewSubscription(c[i].t, "cb_ok", c[i].n)]

PublishCall(event_type, max) ==
    /\ next_uuid.event <= max
    /\ LET r == PublishNew(World, event_type, NoData)
       IN  /\ event_bus' = r.w.bus
           /\ next_uuid' = r.w.uuid
           /\ last_bus' = [InitLastBus EXCEPT
                             !.op = "publish",
                             !.event = NewEvent(event_type, NoData, next_uuid.event),
                             !.exc = r.exc, !.trace = r.w.trace,
                             !.subscribers = AllSubscribers(event_bus, event_type)]
           /\ issued' = issued \o SubscribedInside(r.w.trace)
    /\ UNCHANGED <<regVars, ctlVars, compVars>>

\* bus.get_recent_events(event_type, limit)
GetRecentEventsCall(event_type, limit) ==
    /\ last_bus' = [InitLastBus EXCEPT !.op = "get_recent_events", !.filter = event_type,
                                       !.limit = limit,
                                       !.events = GetRecentEvents(event_bus, event_type, limit)]
    /\ UNCHANGED <<event_bus, issued, regVars, ctlVars, compVars, next_uuid>>

---------------------------------------------------------------------------
(* Initial state: the objects as their constructors leave them.            *)

InitUuid == [component |-> 1, event |-> 1, subscription |-> 1, execution |-> 1]

InitLastCmd ==
    [n |-> 0, command |-> "", args |-> <<>>, outcome |-> Returns(None),
     exc |-> None, returned |-> None, trace |-> <<>>]

InitConsole == [n |-> 0, calls |-> 0, line |-> <<>>, handler |-> "", printed |-> None]

InitLastExec ==
    [n |-> 0, op |-> NoCall, inst |-> None, input |-> <<>>, outcome |-> Returns(None),
     attached |-> {}, failures |-> 0, exc |-> None, val |-> None, trace |-> <<>>]

InitObjects ==
    /\ registry = EmptyRegistry
    /\ registered_with = EmptyDict
    /\ last_reg = InitLastReg
    /\ event_bus = EmptyBus
    /\ issued = <<>>
    /\ last_bus = InitLastBus
    /\ sessions = EmptyDict
    /\ current_session = 0
    /\ middleware_pipeline = <<>>
    /\ loop_running = FALSE
    /\ in_flight = <<>>
    /\ last_cmd = InitLastCmd
    /\ console = InitConsole
    /\ agent_state = EmptyDict
    /\ tool_state = EmptyDict
    /\ files = EmptyDict
    /\ written = EmptyDict
    /\ now = 1
    /\ last_exec = InitLastExec
    /\ executing = <<>>
    /\ next_uuid = InitUuid

---------------------------------------------------------------------------
(* Controller calls.                                                       *)

NamePlain == <<"p", "l", "a", "i", "n">>

\* _load_modules: the register_agent and register_tool calls, in order, with
\* the names code, diagnostics, help, file, command, specs and n8n
Modules ==
    << <<"agent", <<"c", "o", "d", "e">>, CodeAgent>>,
       <<"agent", <<"d", "i", "a", "g", "n", "o", "s", "t", "i", "c", "s">>, DiagnosticsAgent>>,
       <<"agent", <<"h", "e", "l", "p">>, HelpAgent>>,
       <<"tool", <<"f", "i", "l", "e">>, FileTool>>,
       <<"tool", <<"c", "o", "m", "m", "a", "n", "d">>, CommandTool>>,
       <<"tool", <<"s", "p", "e", "c", "s">>, SpecsTool>>,
       <<"tool", <<"n", "8", "n">>, N8nTool>> >>

\* the registry after the first n calls of _load_modules
RECURSIVE LoadModules(_)
LoadModules(n) ==
    IF n = 0 THEN EmptyRegistry
    ELSE RegistryRegister(LoadModules(n - 1), Modules[n][1], Modules[n][2], Modules[n][3],
                          NoId, n)

\* the id of the session the constructor creates
FirstSession == 1

NewSession == [history |-> <<>>]

\* Controller.__init__
Init ==
    /\ registry = LoadModules(Len(Modules))
    /\ registered_with = [k \in {<<Modules[n][1], Modules[n][2]>> : n \in 1..Len(Modules)} |->
                            Modules[CHOOSE n \in 1..Len(Modules) :
                                       k = <<Modules[n][1], Modules[n][2]>>][3]]
    /\ last_reg = InitLastReg
    /\ event_bus = EmptyBus
    /\ issued = <<>>
    /\ last_bus = InitLastBus
    /\ sessions = Put(EmptyDict, FirstSession, NewSession)
    /\ current_session = FirstSession
    /\ middleware_pipeline = <<>>
    /\ loop_running = FALSE
    /\ in_flight = <<>>
    /\ last_cmd = InitLastCmd
    /\ console = InitConsole
    /\ agent_state = [a \in AgentInstances |-> NewAgentState]
    /\ tool_state = [t \in ToolInstances |-> NewToolState]
    /\ files = EmptyDict
    /\ written = EmptyDict
    /\ now = 1
    /\ last_exec = InitLastExec
    /\ executing = <<>>
    /\ next_uuid = [InitUuid EXCEPT !.component = Len(Modules) + 1]

\* Controller.register_middleware, before the command loop starts
RegisterMiddleware(m) ==
    /\ ~loop_running
    /\ Len(middleware_pipeline) < MaxMiddleware
    /\ middleware_pipeline' = Append(middleware_pipeline, m)
    /\ UNCHANGED <<sessions, current_session, loop_running, in_flight, last_cmd, console,
                   regVars, busVars, compVars, next_uuid>>

\* event_bus.subscribe('*', callback), before the command loop starts
Listen(callback) ==
    /\ ~loop_running
    /\ Len(issued) < MaxListeners
    /\ Subscribe(Wildcard, callback)

\* registry.register_agent('plain', obj) for an object that is no Agent, before
\* the command loop starts
RegisterPlain ==
    /\ ~loop_running
    /\ ~IsRegistered(registry, "agent", NamePlain)
    /\ registry' = RegistryRegister(registry, "agent", NamePlain, PlainAgent, NoId,
                                    next_uuid.component)
    /\ registered_with' = Put(registered_with, <<"agent", NamePlain>>, PlainAgent)
    /\ last_reg' = [op |-> "register", id |-> next_uuid.component, ok |-> TRUE]
    /\ next_uuid' = [next_uuid EXCEPT !.component = @ + 1]
    /\ UNCHANGED <<busVars, ctlVars, compVars>>

\* Controller.run_async: the command loop starts
StartLoop ==
    /\ ~loop_running
    /\ loop_running' = TRUE
    /\ UNCHANGED <<sessions, current_session, middleware_pipeline, in_flight, last_cmd,
                   console, regVars, busVars, compVars, next_uuid>>

\* what a process_command call leaves behind, r its outcome
Commit(r, command, args, outcome) ==
    /\ event_bus' = r.w.bus
    /\ agent_state' = r.w.agents
    /\ tool_state' = r.w.tools
    /\ files' = r.w.fs
    /\ written' = r.w.written
    /\ next_uuid' = r.w.uuid
    /\ sessions' = IF r.wrote
                   THEN [sessions EXCEPT ![current_session].history =
                                            SessionAdd(@, r.entry, r.w.now)]
                   ELSE sessions
    /\ now' = IF r.wrote THEN r.w.now + 1 ELSE r.w.now
    /\ last_cmd' = [n |-> last_cmd.n + 1, command |-> command, args |-> args,
                    outcome |-> outcome, exc |-> r.exc, returned |-> r.val,
                    trace |-> r.w.trace]

\* one call of Controller.process_command from the command loop
ProcessCommandCall(command, args, outcome) ==
    /\ loop_running
    /\ last_cmd.n < MaxCommands
    /\ Commit(ProcessCommand(World, middleware_pipeline, registry, command, args, outcome),
              command, args, outcome)
    /\ UNCHANGED <<current_session, middleware_pipeline, loop_running, in_flight, console,
                   last_exec, executing, regVars, issued, last_bus>>

\* the calls of the full Controller, one of each way a call can end
CoreInputs ==
    {\* run Help
     <<"run", <<"H", "e", "l", "p">> >>,
     \* run Ghost x
     <<"run", <<"G", "h", "o", "s", "t", " ", "x">> >>,
     \* use tool File a='b c'
     <<"use", <<"t", "o", "o", "l", " ", "F", "i", "l", "e", " ",
                "a", "=", "'", "b", " ", "c", "'">> >>,
     \* use tool file a='b
     <<"use", <<"t", "o", "o", "l", " ", "f", "i", "l", "e", " ", "a", "=", "'", "b">> >>,
     \* use tool Ghost x
     <<"use", <<"t", "o", "o", "l", " ", "G", "h", "o", "s", "t", " ", "x">> >>,
     \* session
     <<"session", <<>> >>}

\* the calls of the router
RouteInputs ==
    CoreInputs \cup
    {\* run
     <<"run", <<>> >>,
     \* run code x
     <<"run", <<"c", "o", "d", "e", " ", "x">> >>,
     \* run plain x, a blank at the end
     <<"run", <<"p", "l", "a", "i", "n", " ", "x", " ">> >>,
     \* use tool file  x y, two blanks before x
     <<"use", <<"t", "o", "o", "l", " ", "f", "i", "l", "e", " ", " ", "x", " ", "y">> >>,
     \* use tool
     <<"use", <<"t", "o", "o", "l">> >>,
     \* use Help
     <<"use", <<"H", "e", "l", "p">> >>,
     \* run diagnostics
     <<"run", <<"d", "i", "a", "g", "n", "o", "s", "t", "i", "c", "s">> >>,
     \* use tool command it's
     <<"use", <<"t", "o", "o", "l", " ", "c", "o", "m", "m", "a", "n", "d", " ",
                "i", "t", "'", "s">> >>,
     \* use tool command x a=b
     <<"use", <<"t", "o", "o", "l", " ", "c", "o", "m", "m", "a", "n", "d", " ",
                "x", " ", "a", "=", "b">> >>}

\* what the logic of the component a call reaches can do
OutcomesFor(command) == IF command = "use" THEN ToolOutcomes ELSE AgentOutcomes

\* the Controller, its middleware pipeline and its listeners set up before the
\* command loop runs
Next ==
    \/ \E m \in MiddlewareKinds : RegisterMiddleware(m)
    \/ Listen("cb_raise")
    \/ StartLoop
    \/ \E c \in CoreInputs : \E o \in OutcomesFor(c[1]) : ProcessCommandCall(c[1], c[2], o)

Spec == Init /\ [][Next]_vars

\* the router on its own: no middleware, every kind of args, every kind of agent
NextRoute ==
    \/ \E cb \in Callbacks : Listen(cb)
    \/ RegisterPlain
    \/ StartLoop
    \/ \E c \in RouteInputs : \E o \in OutcomesFor(c[1]) : ProcessCommandCall(c[1], c[2], o)

SpecRoute == Init /\ [][NextRoute]_vars

---------------------------------------------------------------------------
(* The command loop of Controller.run_async.                                *)

\* the text of a sequence of characters as one string
RECURSIVE Join(_)
Join(s) == IF s = <<>> THEN "" ELSE s[1] \o Join(Tail(s))

\* the last index <= i of s that holds no whitespace (0 if none)
RECURSIVE SkipSpaceBack(_, _)
SkipSpaceBack(s, i) == IF i >= 1 /\ IsSpace(s[i]) THEN SkipSpaceBack(s, i - 1) ELSE i

\* s.strip()
Strip(s) == SubSeq(s, SkipSpace(s, 1), SkipSpaceBack(s, Len(s)))

PleaseEnter == <<"Please enter a command. Type help or ?.">>

\* Controller._print_help: the menu, and the commands it lists
HelpMenu == <<"MCP Help Menu">>

HelpMenuCommands == {"run", "use", "list", "help", "?", "exit", "quit", "session"}

UsageList == <<"Usage: list agents | list tools">>

\* ", ".join(names)
RECURSIVE JoinNames(_)
JoinNames(names) ==
    IF names = <<>> THEN <<>>
    ELSE IF Len(names) = 1 THEN names[1]
    ELSE names[1] \o <<", ">> \o JoinNames(Tail(names))

\* Controller._handle_list_command: what it prints
HandleListCommand(reg, args) ==
    IF args = <<>> THEN UsageList
    ELSE IF Lower(args) = <<"a", "g", "e", "n", "t", "s">>
    THEN <<"Available agents: ">> \o JoinNames(GetNames(reg, "agent"))
    ELSE IF Lower(args) = <<"t", "o", "o", "l", "s">>
    THEN <<"Available tools: ">> \o JoinNames(GetNames(reg, "tool"))
    ELSE <<"Unknown list option: ">> \o Lower(args) \o <<". Try: list agents | list tools">>

\* the loop handled the line itself and printed text
Handled(line, handler, text) ==
    /\ console' = [console EXCEPT !.n = @ + 1, !.line = line, !.handler = handler,
                                  !.printed = text]
    /\ UNCHANGED <<sessions, current_session, middleware_pipeline, loop_running, in_flight,
                   last_cmd, regVars, busVars, compVars, next_uuid>>

\* break: the loop ends
Break(line) ==
    /\ console' = [console EXCEPT !.n = @ + 1, !.line = line, !.handler = "exit",
                                  !.printed = None]
    /\ loop_running' = FALSE
    /\ UNCHANGED <<sessions, current_session, middleware_pipeline, in_flight,
                   last_cmd, regVars, busVars, compVars, next_uuid>>

\* result = await self.process_command(command, args): the call is started and
\* the loop waits for it
Await(line, command, args, outcome) ==
    /\ console' = [console EXCEPT !.n = @ + 1, !.calls = @ + 1, !.line = line,
                                  !.handler = "process_command", !.printed = None]
    /\ in_flight' = <<[command |-> command, args |-> args, outcome |-> outcome,
                       r |-> ProcessCommand(World, middleware_pipeline, registry, command,
                                            args, outcome)]>>
    /\ UNCHANGED <<sessions, current_session, middleware_pipeline, loop_running,
                   last_cmd, regVars, busVars, compVars, next_uuid>>

\* the branches of the loop body once the line is split
Dispatch(line, command, args, outcome) ==
    IF command \in {"help", "?"} THEN Handled(line, "help", HelpMenu)
    ELSE IF command = "list" THEN Handled(line, "list", HandleListCommand(registry, args))
    ELSE Await(line, command, args, outcome)

SplitLine(line, parts, outcome) ==
    Dispatch(line, Join(Lower(parts[1])), IF Len(parts) > 1 THEN parts[2] ELSE <<>>, outcome)

\* the loop body on the stripped line
LoopBody(line, outcome) ==
    IF line = <<>> THEN Handled(line, "empty", PleaseEnter)
    ELSE IF Join(Lower(line)) \in {"exit", "quit"} THEN Break(line)
    ELSE SplitLine(line, Split(line, 1), outcome)

\* the loop reads on while the call it started is under way: the call made a
\* task of its own instead of being awaited
AtInputAnyTime == TRUE

\* the loop is at input(): no process_command call is awaited
AtInput == in_flight = <<>>

\* Controller.run_async: the loop reads a line and handles it, up to the await
ReadLine(user_input, outcome) ==
    /\ loop_running
    /\ AtInput
    /\ console.n < MaxLines
    /\ LoopBody(Strip(user_input), outcome)

\* Controller.run_async: the awaited process_command call completes and its
\* result is printed
Resume ==
    /\ loop_running
    /\ in_flight # <<>>
    /\ Commit(in_flight[1].r, in_flight[1].command, in_flight[1].args, in_flight[1].outcome)
    /\ console' = [console EXCEPT !.printed = in_flight[1].r.val]
    /\ in_flight' = <<>>
    /\ UNCHANGED <<current_session, middleware_pipeline, loop_running, last_exec,
                   executing, regVars, issued, last_bus>>

\* the lines typed at the prompt
LoopLines ==
    {\* session new
     <<"s", "e", "s", "s", "i", "o", "n", " ", "n", "e", "w">>,
     \* session switch 1
     <<"s", "e", "s", "s", "i", "o", "n", " ", "s", "w", "i", "t", "c", "h", " ", "1">>,
     \* a blank line
     <<" ">>,
     \* Quit, blanks around it
     <<" ", "Q", "u", "i", "t", " ">>,
     \* Help me
     <<"H", "e", "l", "p", " ", "m", "e">>,
     \* ?
     <<"?">>,
     \* List  Tools, two blanks
     <<"L", "i", "s", "t", " ", " ", "T", "o", "o", "l", "s">>,
     \* list agents
     <<"l", "i", "s", "t", " ", "a", "g", "e", "n", "t", "s">>,
     \* list
     <<"l", "i", "s", "t">>,
     \* list x
     <<"l", "i", "s", "t", " ", "x">>,
     \* run help
     <<"r", "u", "n", " ", "h", "e", "l", "p">>,
     \* use tool command x
     <<"u", "s", "e", " ", "t", "o", "o", "l", " ", "c", "o", "m", "m", "a", "n", "d", " ",
       "x">>}

\* the command loop of a Controller as its constructor built it
NextLoop ==
    \/ StartLoop
    \/ \E l \in LoopLines : \E o \in AgentOutcomes : ReadLine(l, o)
    \/ Resume

SpecLoop == Init /\ [][NextLoop]_vars


---------------------------------------------------------------------------
(* Agent and Tool calls made on the component itself.                      *)

KwargsAB == Put(EmptyDict, <<"a">>, <<"b">>)

\* the logic of a long-running component: it works, or it raises
LongRunOutcomes == {Returns(<<"out">>), Raises(LogicError)}

\* what a direct call leaves behind, r its outcome
Executed(r, inst, op, input, outcome) ==
    /\ agent_state' = r.w.agents
    /\ tool_state' = r.w.tools
    /\ files' = r.w.fs
    /\ written' = r.w.written
    /\ next_uuid' = r.w.uuid
    /\ now' = r.w.now
    /\ last_exec' = [n |-> last_exec.n + 1, op |-> op, inst |-> inst,
                     input |-> input, outcome |-> outcome,
                     attached |-> IF inst \in AgentInstances THEN agent_state[inst].tools
                                  ELSE {},
                     failures |-> last_exec.failures + (IF outcome.kind = "raise" THEN 1 ELSE 0),
                     exc |-> r.exc, val |-> r.val, trace |-> r.w.trace]
    /\ UNCHANGED <<regVars, busVars, ctlVars>>

\* tool.execute(**kwargs) or await tool.execute_async(**kwargs), on a tool that
\* is the one component in use
ExecuteCall(inst, kwargs, outcome, op) ==
    /\ last_exec.n < MaxExecutions
    /\ outcome.kind = "raise" => last_exec.failures < MaxFailures
    /\ last_exec.inst \in {None, inst}
    /\ Executed(IF op = "execute" THEN ToolExecute(World, inst, kwargs, outcome)
                ELSE ToolExecuteAsync(World, inst, kwargs, outcome),
                inst, op, kwargs, outcome)
    /\ UNCHANGED executing

\* agent.run(text) or await agent.run_async(text), on an agent that is the one
\* component in use
RunCall(inst, input_text, outcome, op) ==
    /\ last_exec.n < MaxExecutions
    /\ outcome.kind = "raise" => last_exec.failures < MaxFailures
    /\ last_exec.inst \in {None, inst}
    /\ Executed(IF op = "run" THEN AgentRun(World, inst, input_text, outcome)
                ELSE AgentRunAsync(World, inst, input_text, outcome),
                inst, op, input_text, outcome)
    /\ UNCHANGED executing

\* one component of a constructed Controller, called again and again
NextLongRun ==
    \/ \E o \in LongRunOutcomes, op \in {"execute", "execute_async"} :
          ExecuteCall(CommandTool, KwargsAB, o, op)
    \/ \E o \in LongRunOutcomes, op \in {"run", "run_async"} :
          RunCall(HelpAgent, <<>>, o, op)

SpecLongRun == Init /\ [][NextLongRun]_vars

\* agent.register_tool(name, tool)
AttachTool(inst, name) ==
    /\ name \notin agent_state[inst].tools
    /\ agent_state' = AgentRegisterTool(agent_state, inst, name)
    /\ UNCHANGED <<tool_state, files, now, last_exec, written, executing, regVars, busVars,
                   ctlVars, next_uuid>>

\* del agent.tools[name]: the caller takes a tool off the agent's tools dict
DetachTool(inst, name) ==
    /\ name \in agent_state[inst].tools
    /\ agent_state' = [agent_state EXCEPT ![inst].tools = @ \ {name}]
    /\ UNCHANGED <<tool_state, files, now, last_exec, written, executing, regVars, busVars,
                   ctlVars, next_uuid>>

\* tool.check_permissions(granted_permissions)
CheckPermissionsCall(inst, granted_permissions) ==
    /\ ~tool_state[inst].permissions_checked
    /\ tool_state' = CheckPermissions(tool_state, inst, granted_permissions)
    /\ UNCHANGED <<agent_state, files, now, last_exec, written, executing, regVars, busVars,
                   ctlVars, next_uuid>>

\* agent.run(text) or await agent.run_async(text)
DirectRun(inst, input_text, outcome, op) ==
    /\ last_exec.n < MaxDirectCalls
    /\ Executed(IF op = "run" THEN AgentRun(World, inst, input_text, outcome)
                ELSE AgentRunAsync(World, inst, input_text, outcome),
                inst, op, input_text, outcome)
    /\ UNCHANGED executing

\* tool.execute(**kwargs) or await tool.execute_async(**kwargs)
DirectExecute(inst, kwargs, outcome, op) ==
    /\ last_exec.n < MaxDirectCalls
    /\ Executed(IF op = "execute" THEN ToolExecute(World, inst, kwargs, outcome)
                ELSE ToolExecuteAsync(World, inst, kwargs, outcome),
                inst, op, kwargs, outcome)
    /\ UNCHANGED executing

\* the components called directly: an agent and a tool with a blocking
\* implementation only, an agent with required tools and a tool with a
\* non-blocking implementation of their own
DirectAgents == {HelpAgent, CodeAgent}

DirectTools == {CommandTool, FileTool}

\* the components of a constructed Controller, set up and called on their own
NextComponents ==
    \/ \E a \in DirectAgents : \E n \in RequiredTools(a) : AttachTool(a, n)
    \/ \E t \in DirectTools : \E g \in {{}, RequiredPermissions(t)} : CheckPermissionsCall(t, g)
    \/ \E a \in DirectAgents, o \in AgentOutcomes, op \in {"run", "run_async"} :
          DirectRun(a, <<"x">>, o, op)
    \/ \E t \in DirectTools, o \in ToolOutcomes, op \in {"execute", "execute_async"} :
          DirectExecute(t, KwargsAB, o, op)

SpecComponents == Init /\ [][NextComponents]_vars

\* an agent with required tools, its tools put on and taken off between calls
NextDependencies ==
    \/ \E n \in RequiredTools(CodeAgent) : AttachTool(CodeAgent, n)
    \/ \E n \in RequiredTools(CodeAgent) : DetachTool(CodeAgent, n)
    \/ \E o \in AgentOutcomes, op \in {"run", "run_async"} :
          DirectRun(CodeAgent, <<"x">>, o, op)

SpecDependencies == Init /\ [][NextDependencies]_vars

\* the kwargs of a FileTool call
FileKwargs(action, path, content) ==
    Put(Put(Put(EmptyDict, KeyAction, action), KeyPath, path), KeyContent, content)

\* the calls made on the FileTool itself: writes of a short text, of the empty
\* text and of a text with a carriage return, a read, an append and a delete on
\* one path, a write on another path and a move from the one to the other
FileCalls ==
    {FileKwargs(<<"w", "r", "i", "t", "e">>, <<"a">>, <<"h", "i">>),
     FileKwargs(<<"w", "r", "i", "t", "e">>, <<"a">>, <<>>),
     FileKwargs(<<"w", "r", "i", "t", "e">>, <<"a">>, <<"x", "\r", "y">>),
     Put(Put(EmptyDict, KeyAction, <<"r", "e", "a", "d">>), KeyPath, <<"a">>),
     FileKwargs(<<"a", "p", "p", "e", "n", "d">>, <<"a">>, <<"h", "i">>),
     Put(Put(EmptyDict, KeyAction, <<"d", "e", "l", "e", "t", "e">>), KeyPath, <<"a">>),
     FileKwargs(<<"w", "r", "i", "t", "e">>, <<"b">>, <<"h", "i">>),
     Put(Put(Put(EmptyDict, KeyAction, <<"m", "o", "v", "e">>), KeyPath, <<"b">>),
         KeyDestination, <<"a">>)}

\* file_tool.execute(**kwargs) on the FileTool of a constructed Controller,
\* before the command loop starts
FileExecuteCall(kwargs) ==
    /\ ~loop_running
    /\ last_exec.n < MaxFileCalls
    /\ Executed(ToolExecute(World, FileTool, kwargs, Logic), FileTool, "execute", kwargs, Logic)
    /\ UNCHANGED executing

UseToolFile == <<"t", "o", "o", "l", " ", "f", "i", "l", "e", " ">>

\* the args of the use commands given to the FileTool
FileCommands ==
    {\* tool file action=write path=a content=hi
     UseToolFile \o <<"a", "c", "t", "i", "o", "n", "=", "w", "r", "i", "t", "e", " ",
                      "p", "a", "t", "h", "=", "a", " ",
                      "c", "o", "n", "t", "e", "n", "t", "=", "h", "i">>,
     \* tool file action=write path=a content=
     UseToolFile \o <<"a", "c", "t", "i", "o", "n", "=", "w", "r", "i", "t", "e", " ",
                      "p", "a", "t", "h", "=", "a", " ",
                      "c", "o", "n", "t", "e", "n", "t", "=">>,
     \* tool file action=read path=a
     UseToolFile \o <<"a", "c", "t", "i", "o", "n", "=", "r", "e", "a", "d", " ",
                      "p", "a", "t", "h", "=", "a">>,
     \* tool file action=delete path=a
     UseToolFile \o <<"a", "c", "t", "i", "o", "n", "=", "d", "e", "l", "e", "t", "e", " ",
                      "p", "a", "t", "h", "=", "a">>}

\* the FileTool of a constructed Controller: called on its own, then through
\* the use command
NextFile ==
    \/ \E k \in FileCalls : FileExecuteCall(k)
    \/ StartLoop
    \/ \E a \in FileCommands : ProcessCommandCall("use", a, Logic)

SpecFile == Init /\ [][NextFile]_vars

---------------------------------------------------------------------------
(* Tool.execute and Tool.execute_async step by step: the record is put in   *)
(* the history, the logic runs, the record is updated.                      *)

\* the way the logic of a call is run
HowRun(inst, op) ==
    IF op = "execute" THEN "execute"
    ELSE IF HasExecuteAsync(inst) THEN "execute_async" ELSE "execute_in_worker"

\* execute up to the call of the logic: the record created and put in the
\* history, the progress tracker written into the kwargs the record holds
ExecuteBegun(inst, kwargs, op) ==
    /\ tool_state' = [ToolStarted(World, inst, kwargs).tools EXCEPT
                         ![inst].execution_history =
                             UpdateRecord(@, next_uuid.execution,
                                          [StartedRecord(World, kwargs) EXCEPT
                                              !.parameters = WithTracker(inst, @)])]
    /\ next_uuid' = ToolStarted(World, inst, kwargs).uuid
    /\ now' = ToolStarted(World, inst, kwargs).now
    /\ executing' = Append(executing,
                           [inst |-> inst, kwargs |-> kwargs, op |-> op,
                            started |-> StartedRecord(World, kwargs)])
    /\ UNCHANGED <<agent_state, files, last_exec, written, regVars, busVars, ctlVars>>

\* a call of execute or execute_async begins, while fewer than MaxConcurrent
\* calls are under way
ExecuteBegin(inst, kwargs, op) ==
    /\ Len(executing) < MaxConcurrent
    /\ next_uuid.execution <= MaxStepCalls
    /\ ExecuteBegun(inst, kwargs, op)

\* execute from the call of the logic on, for the call e under way
ExecuteRest(e, outcome) ==
    ToolFinished(ToolRan(Traced(World, HowRun(e.inst, e.op), MetaName(e.inst), e.started.id),
                         e.inst, WithTracker(e.inst, e.kwargs), outcome),
                 e.inst, e.started)

\* the logic of a call under way ends and execute updates the record
ExecuteEnd(i, outcome) ==
    /\ i \in 1..Len(executing)
    /\ outcome.kind = "logic" <=> executing[i].inst = FileTool
    /\ Executed(ExecuteRest(executing[i], outcome), executing[i].inst, executing[i].op,
                executing[i].kwargs, outcome)
    /\ executing' = PopAt(executing, i)

\* the kwargs of the calls made step by step
StepKwargs(inst) ==
    IF inst = FileTool THEN FileKwargs(<<"w", "r", "i", "t", "e">>, <<"a">>, <<"h", "i">>)
    ELSE KwargsAB

\* calls on the tools of a constructed Controller, up to MaxConcurrent of them
\* under way at a time
NextSteps ==
    \/ \E t \in DirectTools, op \in {"execute", "execute_async"} :
          ExecuteBegin(t, StepKwargs(t), op)
    \/ \E i \in 1..MaxConcurrent : \E o \in ToolOutcomes \cup {Logic} : ExecuteEnd(i, o)

SpecSteps == Init /\ [][NextSteps]_vars

\* the calls of a tool made one after the other before calls overlap
SettledCalls == MaxExecutions - MaxStepCalls

\* await tool.execute_async(**kwargs) while no other call is under way
SettledCall(inst, kwargs, outcome) ==
    /\ executing = <<>>
    /\ next_uuid.execution <= SettledCalls
    /\ ExecuteCall(inst, kwargs, outcome, "execute_async")

\* a call of execute_async begins while others are at their await
OverlapBegin(inst, kwargs) ==
    /\ Len(executing) < MaxConcurrent
    /\ next_uuid.execution > SettledCalls
    /\ next_uuid.execution <= MaxExecutions
    /\ ExecuteBegun(inst, kwargs, "execute_async")

\* the await of a call of execute_async under way ends
OverlapEnd(i, outcome) ==
    /\ outcome.kind = "raise" => last_exec.failures < MaxFailures
    /\ ExecuteEnd(i, outcome)

\* one tool called many times, the last calls overlapping
NextOverlap ==
    \/ \E o \in LongRunOutcomes : SettledCall(CommandTool, KwargsAB, o)
    \/ OverlapBegin(CommandTool, KwargsAB)
    \/ \E i \in 1..MaxConcurrent : \E o \in LongRunOutcomes : OverlapEnd(i, o)

SpecOverlap == Init /\ [][NextOverlap]_vars

\* A Registry on its own, under any sequence of register and unregister calls
NextRegistry ==
    \/ \E k \in RegKeys, x \in RegComponents, i \in {NoId} \cup SuppliedIds :
          Register(k[1], k[2], x, i)
    \/ \E i \in 1..MaxUuid : Unregister(i)

SpecRegistry == InitObjects /\ [][NextRegistry]_vars

\* An EventBus on its own, under any sequence of subscribe, unsubscribe and publish calls
NextBus ==
    \/ \E t \in BusEventTypes, cb \in Callbacks : Subscribe(t, cb)
    \/ \E i \in 1..Len(issued) : Unsubscribe(issued[i])
    \/ Unsubscribe(ForeignSub)
    \/ \E t \in BusEventTypes : PublishCall(t, MaxPublish)

SpecBus == InitObjects /\ [][NextBus]_vars

\* An EventBus whose subscribers subscribe and unsubscribe while an event is
\* delivered to them
NextBusInside ==
    \/ \E t \in {"error", Wildcard}, cb \in BusCallbacks \cup {"cb_ok"} : Subscribe(t, cb)
    \/ PublishCall("error", MaxPublish)

SpecBusInside == InitObjects /\ [][NextBusInside]_vars

\* An EventBus whose history fills up: events of one type, wildcard subscribers
NextBusHistory ==
    \/ \E cb \in Callbacks : Subscribe(Wildcard, cb)
    \/ PublishCall("error", MaxLongPublish)

SpecBusHistory == InitObjects /\ [][NextBusHistory]_vars

\* An EventBus whose history is read back
NextBusRecent ==
    \/ \E t \in {"error", "agent.before_run"} : PublishCall(t, MaxRecentPublish)
    \/ \E t \in {NoType, "error", "agent.before_run"}, l \in 0..MaxLimit :
          GetRecentEventsCall(t, l)

SpecBusRecent == InitObjects /\ [][NextBusRecent]_vars

---------------------------------------------------------------------------
(* What the claims read off a call.                                        *)

\* the steps of a trace of kind k, in order
StepsOf(trace, k) == SelectSeq(trace, LAMBDA e : e.k = k)

\* the ids of the subscriptions whose callback a call invoked, in order
Invoked(trace) == LET c == StepsOf(trace, "callback") IN [i \in 1..Len(c) |-> c[i].n]

\* how often the callback of subscription id was invoked
TimesInvoked(trace, id) == Cardinality({i \in 1..Len(trace) : trace[i].k = "callback" /\ trace[i].n = id})

\* sub is subscribed
IsSubscribed(sub) == SubscriptionIndex(event_bus, sub) # 0

\* the ids of the subscriptions to event_type that are subscribed, in the order
\* in which subscribe() made them
SubscribedTo(event_type) ==
    LET s == SelectSeq(issued, LAMBDA x : x.event_type = event_type /\ IsSubscribed(x))
    IN  [i \in 1..Len(s) |-> s[i].id]

\* every callback invoked has returned or raised before the next step of the call
CallbacksComplete(trace) ==
    \A i \in 1..Len(trace) :
        trace[i].k = "callback" =>
            /\ i < Len(trace)
            /\ trace[i + 1].k \in {"callback_returned", "callback_raised"}
            /\ trace[i + 1].n = trace[i].n

PublishDone == last_bus.op = "publish"

\* the history of the current session
History == sessions[current_session].history

\* the types of the events a call published, in order
Published(trace) == LET c == StepsOf(trace, "publish") IN [i \in 1..Len(c) |-> c[i].t]

\* a process_command call has been made, and its router was reached
Routed1 == last_cmd.n > 0 /\ StepsOf(last_cmd.trace, "route") # <<>>

\* the last call was run with args whose first word names no registered agent
UnknownAgentCall ==
    /\ Routed1
    /\ last_cmd.command = "run"
    /\ Split(last_cmd.args, 1) # <<>>
    /\ GetAgent(registry, Lower(Split(last_cmd.args, 1)[1])) = None

\* the last call was use with args "tool <name> ..." whose name is no registered tool
UnknownToolCall ==
    /\ Routed1
    /\ last_cmd.command = "use"
    /\ Len(Split(last_cmd.args, 2)) >= 2
    /\ Split(last_cmd.args, 2)[1] = <<"t", "o", "o", "l">>
    /\ GetTool(registry, Lower(Split(last_cmd.args, 2)[2])) = None

AgentEvents == {"agent.before_run", "agent.after_run", "agent.error"}

ToolEvents == {"tool.before_use", "tool.after_use", "tool.error"}

\* the last call recorded no error and published none of the events
QuietResponse(events) ==
    /\ last_cmd.exc = None
    /\ History[Len(History)].error = None
    /\ History[Len(History)].response = last_cmd.returned
    /\ \A i \in 1..Len(Published(last_cmd.trace)) : Published(last_cmd.trace)[i] \notin events

---------------------------------------------------------------------------
(* C1: Controller.process_command never lets an exception reach its        *)
(* caller: whatever the command, the args, the middleware pipeline and the  *)
(* behaviour of the components (middleware that raise, agent or tool logic  *)
(* that raises, args that do not parse, subscribers that raise), the call   *)
(* returns a value.                                                        *)
C1_NeverRaises ==
    /\ last_cmd.exc = None
    /\ last_cmd.n > 0 => ~Falsy(last_cmd.returned)

\* two calls under a raising subscriber: args that do not parse, then tool
\* logic that raises; both came back as error texts
C1_Witness ==
    /\ last_cmd.n = 2
    /\ Len(History) = 2
    /\ History[1].error = NoClosingQuotation
    /\ History[2].error = LogicError
    /\ last_cmd.returned = <<"Error: ">> \o LogicError
    /\ StepsOf(last_cmd.trace, "callback_raised") # <<>>
    /\ StepsOf(last_cmd.trace, "execute_async") # <<>>

(* C2: Every call of Controller.process_command appends exactly one entry   *)
(* to the history of the current session, whatever the outcome; the entry   *)
(* holds the command, the args, the response and the error of that call     *)
(* (the value returned is the response, or "Error: " and the error if the   *)
(* response is empty), and the earlier entries stay as they were, in order. *)
C2_ExactlyOneEntry ==
    [][last_cmd'.n # last_cmd.n =>
          LET old == sessions[current_session].history
              new == sessions'[current_session].history
          IN  /\ Len(new) = Len(old) + 1
              /\ SubSeq(new, 1, Len(old)) = old
              /\ new[Len(new)].command = last_cmd'.command
              /\ new[Len(new)].args = last_cmd'.args
              /\ last_cmd'.returned =
                     PyOr(new[Len(new)].response,
                          <<"Error: ">> \o Str(new[Len(new)].error))
    ]_vars

\* a call that ended in an error, then a call that ended in a response: two
\* entries, in that order
C2_Witness ==
    /\ last_cmd.n = 2
    /\ Len(History) = 2
    /\ History[1].error # None /\ History[1].response = None
    /\ History[2].error = None /\ History[2].response = last_cmd.returned
    /\ History[1].timestamp < History[2].timestamp

---------------------------------------------------------------------------
(* C3: After any sequence of register and unregister calls, get_by_name of  *)
(* every registered (category, name) returns the component passed to the    *)
(* most recent register call for that (category, name).                     *)
C3_GetByNameReturnsLatest ==
    \A k \in DOMAIN registered_with :
        IsRegistered(registry, k[1], k[2]) =>
            GetByName(registry, k[1], k[2]) = registered_with[k]

(* C4: Re-registering an existing (category, name) makes get_by_name return *)
(* the new component, get(old_id) still returns the old component, and the  *)
(* old entry is reachable by id only (no name maps to old_id).              *)
C4_ReRegisterKeepsOldEntry ==
    [][\A k \in RegKeys, x \in RegComponents, i \in {NoId} \cup SuppliedIds :
         ( /\ IsRegistered(registry, k[1], k[2])
           /\ registry' = RegistryRegister(registry, k[1], k[2], x, i, next_uuid.component)
           /\ registered_with' = Put(registered_with, k, x) )
         => LET old == ODGet(registry.categories[k[1]], k[2])
            IN  /\ GetByName(registry', k[1], k[2]) = x
                /\ RegistryGet(registry', old) = RegistryGet(registry, old)
                /\ RegistryGet(registry', old) # None
                /\ \A q \in RegKeys :
                      IsRegistered(registry', q[1], q[2]) =>
                          ODGet(registry'.categories[q[1]], q[2]) # old
      ]_vars

(* C5: publish invokes the callback of every subscription to event.type and *)
(* of every subscription to '*' exactly once, and of no other subscription.  *)
C5_EachSubscriberOnce ==
    PublishDone =>
        \A i \in 1..Len(issued) :
            LET s == issued[i]
            IN  IF IsSubscribed(s) /\ s.event_type \in {last_bus.event.type, Wildcard}
                THEN TimesInvoked(last_bus.trace, s.id) = 1
                ELSE TimesInvoked(last_bus.trace, s.id) = 0

(* C6, as stated: the callbacks that receive one event are invoked in        *)
(* subscription order (an earlier subscription before a later one), and all  *)
(* have returned before publish returns.                                     *)
C6_GlobalSubscriptionOrder ==
    PublishDone =>
        /\ \A i, j \in 1..Len(Invoked(last_bus.trace)) :
              i < j => Invoked(last_bus.trace)[i] < Invoked(last_bus.trace)[j]
        /\ CallbacksComplete(last_bus.trace)
        /\ last_bus.trace[Len(last_bus.trace)].k = "publish_returned"

(* C6, amended: the callbacks invoked are those of the subscriptions to      *)
(* event.type in subscription order, followed by those of the subscriptions  *)
(* to '*' in subscription order; each has returned or raised before the next *)
(* is invoked, and all before publish returns.                               *)
C6_OrderWithinTypeThenWildcard ==
    PublishDone =>
        /\ Invoked(last_bus.trace) =
              SubscribedTo(last_bus.event.type) \o SubscribedTo(Wildcard)
        /\ CallbacksComplete(last_bus.trace)
        /\ last_bus.trace[Len(last_bus.trace)].k = "publish_returned"

\* a publish that invoked a wildcard subscription after a later exact one
C6_Witness ==
    /\ PublishDone
    /\ \E i, j \in 1..Len(Invoked(last_bus.trace)) :
          /\ i < j
          /\ Invoked(last_bus.trace)[i] > Invoked(last_bus.trace)[j]
          /\ last_bus.event.type # Wildcard

(* C7: a callback that raises during publish does not stop delivery to the   *)
(* subscribers after it, does not propagate to the caller of publish, and    *)
(* the published event is in the history exactly once.                      *)
C7_RaisingSubscriberIsolated ==
    (PublishDone /\ StepsOf(last_bus.trace, "callback_raised") # <<>>) =>
        /\ last_bus.exc = None
        /\ last_bus.trace[Len(last_bus.trace)].k = "publish_returned"
        /\ Len(Invoked(last_bus.trace)) =
              Len(SubscribedTo(last_bus.event.type)) + Len(SubscribedTo(Wildcard))
        /\ Cardinality({i \in 1..Len(event_bus.event_history) :
                           event_bus.event_history[i].id = last_bus.event.id}) = 1

\* a publish in which a callback raised and a later subscriber was still invoked
C7_Witness ==
    /\ PublishDone
    /\ \E i, j \in 1..Len(last_bus.trace) :
          /\ i < j
          /\ last_bus.trace[i].k = "callback_raised"
          /\ last_bus.trace[j].k = "callback_returned"

(* C8: the event history holds at most 100 events and is always the most     *)
(* recent min(n, 100) of the n events published, in publish order.           *)
C8_EventHistoryBounded ==
    LET n == next_uuid.event - 1
        h == event_bus.event_history
    IN  /\ Len(h) = Min(n, 100)
        /\ \A i \in 1..Len(h) : h[i].id = n - Len(h) + i

\* a full history whose oldest events have been evicted
C8_Witness ==
    /\ Len(event_bus.event_history) = 100
    /\ event_bus.event_history[1].id = 3
    /\ StepsOf(last_bus.trace, "callback_raised") # <<>>

(* C9: After any sequence of executions, successful or failing, blocking or *)
(* not, the execution_history of a tool holds at most 50 records and the    *)
(* memory history of an agent at most 100 entries, and what is gone is      *)
(* always the oldest: each history holds the most recent records, in the    *)
(* order in which they were made.                                           *)
C9_ComponentHistoriesBounded ==
    /\ \A t \in DOMAIN tool_state :
          LET h == tool_state[t].execution_history
              made == next_uuid.execution - 1
          IN  h # <<>> =>
                /\ Len(h) <= 50
                /\ Len(h) = Min(50, made)
                /\ \A i \in 1..Len(h) : h[i].id = made - Len(h) + i
    /\ \A a \in DOMAIN agent_state :
          LET h == agent_state[a].history
              made == now - 1
          IN  h # <<>> =>
                /\ Len(h) <= 100
                /\ Len(h) = Min(100, made)
                /\ \A i \in 1..Len(h) : h[i].timestamp = made - Len(h) + i

\* an agent after 52 runs, one of them failing and the last one non-blocking:
\* 100 entries, the four oldest gone
C9_Witness ==
    /\ last_exec.inst = HelpAgent
    /\ last_exec.op = "run_async"
    /\ Len(agent_state[HelpAgent].history) = 100
    /\ agent_state[HelpAgent].history[1].timestamp = 5
    /\ \E i \in 1..100 : agent_state[HelpAgent].history[i].type = "error"

(* C10 as stated: run with a name that resolves to no agent returns         *)
(* "Unknown agent: " and the name as it stands in the args, records no      *)
(* error and publishes no agent event; use with an unknown tool returns     *)
(* "Unknown tool: " and that name and publishes no tool event.              *)
C10_UnknownNameEchoed ==
    /\ UnknownAgentCall =>
          /\ last_cmd.returned = <<"Unknown agent: ">> \o Split(last_cmd.args, 1)[1]
          /\ QuietResponse(AgentEvents)
    /\ UnknownToolCall =>
          /\ last_cmd.returned = <<"Unknown tool: ">> \o Split(last_cmd.args, 2)[2]
          /\ QuietResponse(ToolEvents)

(* C10, amended: when the router is reached, run with a name that resolves  *)
(* to no agent returns "Unknown agent: " and the name in lower case,        *)
(* records no error and publishes no agent event; use with an unknown tool *)
(* returns "Unknown tool: " and the name in lower case and publishes no     *)
(* tool event.                                                             *)
C10_UnknownNameLowered ==
    /\ UnknownAgentCall =>
          /\ last_cmd.returned = <<"Unknown agent: ">> \o Lower(Split(last_cmd.args, 1)[1])
          /\ QuietResponse(AgentEvents)
    /\ UnknownToolCall =>
          /\ last_cmd.returned = <<"Unknown tool: ">> \o Lower(Split(last_cmd.args, 2)[2])
          /\ QuietResponse(ToolEvents)

\* "Ghost x" was run and then the tool "Ghost" used, with a subscriber
\* listening to every event: two responses, no event
C10_Witness ==
    /\ UnknownToolCall
    /\ Len(History) = 2
    /\ History[1].command = "run"
    /\ History[1].response = <<"Unknown agent: ", "g", "h", "o", "s", "t">>
    /\ History[2].response = <<"Unknown tool: ", "g", "h", "o", "s", "t">>
    /\ event_bus.event_history = <<>>
    /\ issued # <<>>

---------------------------------------------------------------------------
(* What the claims read off the middleware pipeline of a call.              *)

\* the indices of the steps of a trace at which a middleware of kind m ran
MiddlewareSteps(trace, m) ==
    {i \in 1..Len(trace) : trace[i].k = "middleware" /\ trace[i].t = m}

\* no step of the kind k follows step i of the trace
NoneAfter(trace, i, k) == \A j \in (i + 1)..Len(trace) : trace[j].k # k

\* the call never got to the router: nothing was routed, looked up or
\* executed, and no agent or tool event went out
RouterNotReached(trace) ==
    /\ \A j \in 1..Len(trace) :
          trace[j].k \notin {"route", "lookup", "execute", "execute_async", "execute_in_worker"}
    /\ \A j \in 1..Len(Published(trace)) :
          Published(trace)[j] \notin AgentEvents \cup ToolEvents

(* C11: if a middleware sets the error of the context, process_command      *)
(* never reaches the router (no agent or tool is looked up or executed, no  *)
(* agent or tool event is published), the middleware after it are not run,   *)
(* and the call returns "Error: " and the error.                            *)
C11_ErrorStopsCommand ==
    \A i \in MiddlewareSteps(last_cmd.trace, "set_error") :
        /\ RouterNotReached(last_cmd.trace)
        /\ NoneAfter(last_cmd.trace, i, "middleware")
        /\ last_cmd.exc = None
        /\ last_cmd.returned = <<"Error: ">> \o MiddlewareDenied

(* C14: a middleware that sets the response of the context ends the          *)
(* pipeline for that command: no middleware registered after it is invoked, *)
(* and the router is not reached.                                           *)
C14_ResponseStopsPipeline ==
    \A i \in MiddlewareSteps(last_cmd.trace, "set_response") :
        /\ NoneAfter(last_cmd.trace, i, "middleware")
        /\ RouterNotReached(last_cmd.trace)

---------------------------------------------------------------------------
(* What the claims read off a FileTool call.                               *)

\* the kwargs the router made of the args of the last command, a use command
\* of the FileTool
LastFileKwargs == KwargsOf(ShlexSplit(Split(last_cmd.args, 2)[3]).tokens, 1, EmptyDict)

\* the last call was a read of the path through execute
DirectRead(path) ==
    /\ last_cmd.n = 0
    /\ last_exec.n > 0
    /\ last_exec.inst = FileTool
    /\ last_exec.input[KeyAction] = <<"r", "e", "a", "d">>
    /\ last_exec.input[KeyPath] = path

\* the last call was a read of the path through the use command
CommandRead(path) ==
    /\ last_cmd.n > 0
    /\ last_cmd.args \in FileCommands
    /\ LastFileKwargs[KeyAction] = <<"r", "e", "a", "d">>
    /\ LastFileKwargs[KeyPath] = path

(* C12: through the FileTool, a write of content c to path p followed by a  *)
(* read of p, with no write, append, delete or move on p in between, returns *)
(* exactly c, when the tool is called through execute and when it is called *)
(* through process_command('use', 'tool file action=...').                  *)
C12_WriteReadRoundTrip ==
    \A p \in DOMAIN written :
        /\ DirectRead(p) => (last_exec.exc = None /\ last_exec.val = written[p])
        /\ CommandRead(p) => (last_cmd.exc = None /\ last_cmd.returned = written[p])

---------------------------------------------------------------------------
(* What the claims read off a call made on a component.                     *)

\* two outcomes of one call are the same to the caller and leave the same
\* component state behind
SameOutcome(a, b) ==
    /\ a.exc = b.exc
    /\ a.val = b.val
    /\ a.w.agents = b.w.agents
    /\ a.w.tools = b.w.tools
    /\ a.w.fs = b.w.fs

\* the steps of a trace at which the logic of a component ran
Ran(trace) ==
    SelectSeq(trace, LAMBDA e : e.k \in {"execute", "execute_async", "execute_in_worker"})

AgentCallDone == last_exec.n > 0 /\ last_exec.op \in {"run", "run_async"}

ToolCallDone == last_exec.n > 0 /\ last_exec.op \in {"execute", "execute_async"}

(* C13: for an agent or a tool that has the blocking implementation         *)
(* _execute only, the non-blocking path (run_async, execute_async) gives,   *)
(* for the same input in the same state, the result of the blocking path    *)
(* (run, execute), and fails as the blocking path fails when _execute       *)
(* raises: the same error string for an agent, the same exception for a     *)
(* tool.                                                                    *)
C13_FallbackIsInvisible ==
    /\ \A a \in AgentInstances : \A o \in AgentOutcomes :
          ~HasExecuteAsync(a) =>
              SameOutcome(AgentRunAsync(World, a, <<"x">>, o), AgentRun(World, a, <<"x">>, o))
    /\ \A t \in ToolInstances : \A o \in ToolOutcomes :
          ~HasExecuteAsync(t) =>
              SameOutcome(ToolExecuteAsync(World, t, KwargsAB, o),
                          ToolExecute(World, t, KwargsAB, o))

\* run_async of the HelpAgent ran _execute on a worker, _execute raised, and
\* the error string came back
C13_Witness ==
    /\ AgentCallDone
    /\ last_exec.inst = HelpAgent
    /\ last_exec.op = "run_async"
    /\ StepsOf(last_exec.trace, "execute_in_worker") # <<>>
    /\ last_exec.outcome = Raises(LogicError)
    /\ last_exec.exc = None
    /\ last_exec.val = <<"Error in agent ", "help", ": ">> \o LogicError

---------------------------------------------------------------------------
(* What the claims read off the events of a dispatched call.                *)

BeforeEvents == {"agent.before_run", "tool.before_use"}

\* the after event and the error event that match a before event
ClosingEvents(before) ==
    IF before = "agent.before_run" THEN {"agent.after_run", "agent.error"}
    ELSE {"tool.after_use", "tool.error"}

\* the indices of the steps of a trace at which an event of one of the types
\* was published
PublishSteps(trace, types) ==
    {i \in 1..Len(trace) : trace[i].k = "publish" /\ trace[i].t \in types}

\* the index of the step at which the publish call begun at step i returned
ReturnOf(trace, i) ==
    CHOOSE j \in i..Len(trace) :
        /\ trace[j].k = "publish_returned"
        /\ trace[j].n = trace[i].n
        /\ \A m \in i..(j - 1) : trace[m].k # "publish_returned"

\* the publish call begun at step i ran to its end
Returns1(trace, i) ==
    \E j \in i..Len(trace) : trace[j].k = "publish_returned" /\ trace[j].n = trace[i].n

\* the callbacks invoked between step i and step j
InvokedBetween(trace, i, j) ==
    Cardinality({m \in i..j : trace[m].k = "callback"})

WorkSteps == {"execute", "execute_async", "execute_in_worker", "finished"}

(* C15: for every dispatched agent or tool call, the before event is        *)
(* delivered to all its subscribers before the execution of the component   *)
(* begins, the execution has ended before the after or error event is        *)
(* published, and the before event is followed by exactly one event of the   *)
(* call: the matching after event or the matching error event.              *)
C15_EventsBracketTheCall ==
    \A i \in PublishSteps(last_cmd.trace, BeforeEvents) :
        LET tr == last_cmd.trace
            closing == PublishSteps(tr, ClosingEvents(tr[i].t))
        IN  /\ Returns1(tr, i)
            /\ CallbacksComplete(tr)
            /\ InvokedBetween(tr, i, ReturnOf(tr, i)) =
                  Len(AllSubscribers(event_bus, tr[i].t))
            /\ \A m \in 1..ReturnOf(tr, i) : tr[m].k \notin WorkSteps
            /\ Cardinality(closing) = 1
            /\ \A c \in closing :
                  /\ c > ReturnOf(tr, i)
                  /\ \A m \in c..Len(tr) : tr[m].k \notin WorkSteps
                  /\ Returns1(tr, c)
            /\ Cardinality(PublishSteps(tr, BeforeEvents)) = 1

\* a tool call with a listener that raises: tool.before_use was delivered, the
\* tool ran and failed, and tool.error was published
C15_Witness ==
    /\ last_cmd.n > 0
    /\ Published(last_cmd.trace) = <<"tool.before_use", "tool.error", "error">>
    /\ Len(Ran(last_cmd.trace)) = 1
    /\ StepsOf(last_cmd.trace, "finished") # <<>>
    /\ StepsOf(last_cmd.trace, "callback_raised") # <<>>
    /\ issued # <<>>

---------------------------------------------------------------------------
\* the execution records of the tools whose logic ran in the last command
LastToolRecords ==
    {rec \in UNION {{tool_state[t].execution_history[i] :
                        i \in 1..Len(tool_state[t].execution_history)} : t \in ToolInstances} :
        \E i \in 1..Len(Ran(last_cmd.trace)) : Ran(last_cmd.trace)[i].n = rec.id}

\* the last command was a use command, and the logic of the tool raised
ToolFailedCall ==
    /\ last_cmd.n > 0
    /\ last_cmd.command = "use"
    /\ \E rec \in LastToolRecords : rec.status = "failed"

(* C16: when the logic of a tool raises during process_command('use',       *)
(* 'tool <name> ...'), the Controller publishes tool.error and not           *)
(* tool.after_use for the call, process_command returns "Error: " and the    *)
(* message instead of raising, and the command loop goes on: the call after *)
(* it is processed as any call is.                                          *)
C16_ToolFailureContained ==
    /\ ToolFailedCall =>
          /\ Cardinality(PublishSteps(last_cmd.trace, {"tool.error"})) = 1
          /\ PublishSteps(last_cmd.trace, {"tool.after_use"}) = {}
          /\ last_cmd.exc = None
          /\ \A rec \in LastToolRecords : last_cmd.returned = <<"Error: ">> \o rec.error
          /\ History[Len(History)].error = LogicError
          /\ loop_running
    /\ (Len(History) >= 2 /\ History[Len(History) - 1].error = LogicError) =>
          /\ last_cmd.exc = None
          /\ History[Len(History)].command = last_cmd.command
          /\ last_cmd.returned = PyOr(History[Len(History)].response,
                                      <<"Error: ">> \o Str(History[Len(History)].error))

\* the logic of the file tool raised in one use command and returned in the
\* next: an error text, then the result
C16_Witness ==
    /\ last_cmd.n = 2
    /\ History[1].command = "use" /\ History[1].error = LogicError
    /\ History[2].command = "use" /\ History[2].response = <<"out">>
    /\ Published(last_cmd.trace) = <<"tool.before_use", "tool.after_use">>
    /\ Len(event_bus.event_history) = 5

---------------------------------------------------------------------------
(* C17: Agent.run and Agent.run_async never let an exception escape: when   *)
(* the logic of the agent (_execute or _execute_async) raises, the call      *)
(* returns a text that names the agent and holds the message of the          *)
(* exception.                                                               *)
C17_AgentAbsorbsExceptions ==
    AgentCallDone =>
        /\ last_exec.exc = None
        /\ (Ran(last_exec.trace) # <<>> /\ last_exec.outcome.kind = "raise") =>
              /\ last_exec.val = <<"Error in agent ", MetaName(last_exec.inst), ": ">>
                                     \o last_exec.outcome.value
              /\ LET h == agent_state[last_exec.inst].history
                 IN  /\ h[Len(h)].type = "error"
                     /\ h[Len(h)].data.error = last_exec.outcome.value

\* the CodeAgent with its tools registered: _execute_async raised in
\* run_async, and the error text came back
C17_Witness ==
    /\ AgentCallDone
    /\ last_exec.inst = CodeAgent
    /\ last_exec.op = "run_async"
    /\ StepsOf(last_exec.trace, "execute_async") # <<>>
    /\ last_exec.outcome = Raises(LogicError)
    /\ last_exec.val = <<"Error in agent ", "code", ": ">> \o LogicError

\* the record of the last tool call
LastRecord ==
    LET h == tool_state[last_exec.inst].execution_history IN h[Len(h)]

(* C18: when the logic of a tool raises inside Tool.execute or              *)
(* Tool.execute_async, the execution record of the call is updated to the    *)
(* status 'failed' with the error and a completion timestamp, and the same   *)
(* exception is raised to the caller: it is not made a return value.         *)
C18_ToolRecordsThenReraises ==
    (ToolCallDone /\ last_exec.outcome.kind = "raise") =>
        /\ last_exec.exc = last_exec.outcome.value
        /\ last_exec.val = None
        /\ LastRecord.status = "failed"
        /\ LastRecord.error = last_exec.outcome.value
        /\ LastRecord.result = None
        /\ LastRecord.completed_at > LastRecord.timestamp
        /\ LastRecord.id = Ran(last_exec.trace)[1].n
        /\ \A i \in 1..Len(tool_state[last_exec.inst].execution_history) :
              tool_state[last_exec.inst].execution_history[i].status # "started"

\* the second call of the CommandTool: execute_async ran _execute on a worker,
\* it raised, the record is 'failed' and the exception reached the caller
C18_Witness ==
    /\ ToolCallDone
    /\ last_exec.inst = CommandTool
    /\ last_exec.op = "execute_async"
    /\ StepsOf(last_exec.trace, "execute_in_worker") # <<>>
    /\ last_exec.exc = LogicError
    /\ Len(tool_state[CommandTool].execution_history) = 2
    /\ LastRecord.status = "failed"

(* C19: a tool whose required_permissions are not satisfied does not        *)
(* execute: Tool.execute and Tool.execute_async verify the permissions       *)
(* before the first execution, and on failure the logic of the tool is not   *)
(* invoked and a failure result is produced instead of an exception.         *)
C19_PermissionGate ==
    (/\ ToolCallDone
     /\ RequiredPermissions(last_exec.inst) # {}
     /\ ~tool_state[last_exec.inst].permissions_checked) =>
        /\ Ran(last_exec.trace) = <<>>
        /\ last_exec.exc = None
        /\ last_exec.val # None

(* C20: an agent with a required tool that has not been registered on it     *)
(* does not execute: Agent.run and Agent.run_async return a text that tells  *)
(* of the missing dependencies, without invoking _execute or _execute_async  *)
(* and without raising.                                                     *)
C20_DependencyGate ==
    (AgentCallDone /\ ~(RequiredTools(last_exec.inst) \subseteq agent_state[last_exec.inst].tools)) =>
        /\ last_exec.exc = None
        /\ last_exec.val = <<"Error: Agent ", MetaName(last_exec.inst),
                             " is missing required dependencies">>
        /\ Ran(last_exec.trace) = <<>>
        /\ agent_state[last_exec.inst].history = <<>>
        /\ ~agent_state[last_exec.inst].dependencies_checked

\* the CodeAgent with one of its two required tools registered: run_async
\* returned the text and nothing ran
C20_Witness ==
    /\ AgentCallDone
    /\ last_exec.inst = CodeAgent
    /\ last_exec.op = "run_async"
    /\ agent_state[CodeAgent].tools = {"file"}
    /\ last_exec.val = <<"Error: Agent ", "code", " is missing required dependencies">>
    /\ last_exec.trace = <<>>

---------------------------------------------------------------------------
(* The command loop.                                                        *)

SessionWord == <<"s", "e", "s", "s", "i", "o", "n">>

SessionNewLine == SessionWord \o <<" ", "n", "e", "w">>

SessionSwitchLine == SessionWord \o <<" ", "s", "w", "i", "t", "c", "h", " ", "1">>

\* the loop has read and fully handled a line
LineHandled == console.n > 0 /\ in_flight = <<>>

\* the latest line is a session command
SessionLine ==
    /\ LineHandled
    /\ console.line # <<>>
    /\ Lower(Split(console.line, 1)[1]) = SessionWord

\* C21: a session command typed at the prompt is handled by the command loop
\* itself, without a process_command call, and acts on the Controller's session
\* map: after 'session new' the map holds a new Session and it is the current
\* one, after 'session switch 1' session 1 is the current one.
C21_SessionCommandsAtLoop ==
    /\ SessionLine => console.handler # "process_command"
    /\ (LineHandled /\ console.line = SessionNewLine)
           => /\ Cardinality(DOMAIN sessions) > 1
              /\ current_session \in DOMAIN sessions
              /\ current_session # FirstSession
    /\ (LineHandled /\ console.line = SessionSwitchLine) => current_session = FirstSession

---------------------------------------------------------------------------
(* The arguments a tool is called with.                                     *)

\* the words of the last use command: 'tool', the name, the rest
UseParts == Split(last_cmd.args, 2)

\* the last call was use with args "tool <name> <rest>", the name that of a
\* registered tool and the rest not empty
UseToolCall ==
    /\ Routed1
    /\ last_cmd.command = "use"
    /\ Len(UseParts) = 3
    /\ UseParts[1] = <<"t", "o", "o", "l">>
    /\ GetTool(registry, Lower(UseParts[2])) # None

\* no token of the text can be a key=value token: the text holds no '='
NoPairIn(rest) == \A i \in 1..Len(rest) : rest[i] # "="

\* the keyword arguments of the calls the last command made on tools, as their
\* execution records hold them (the progress tracker Tool.execute adds left out)
InvokedWith == {Del(rec.parameters, ProgressKey) : rec \in LastToolRecords}

\* C22: in 'use tool <name> <rest>', when <rest> holds no key=value token the
\* tool is called with the one argument raw_input, its value the whole of
\* <rest>; when <rest> holds key=value tokens the tool is called with those
\* pairs.
C22_RawInputOrPairs ==
    UseToolCall =>
        /\ NoPairIn(UseParts[3])
               => InvokedWith = {Put(EmptyDict, RawInputKey, UseParts[3])}
        /\ UseParts[3] = <<"a", "=", "'", "b", " ", "c", "'">>
               => InvokedWith = {Put(EmptyDict, <<"a">>, <<"b", " ", "c">>)}
        /\ UseParts[3] = <<"x", " ", "a", "=", "b">>
               => InvokedWith = {Put(EmptyDict, <<"a">>, <<"b">>)}

---------------------------------------------------------------------------
(* The life of an execution record.                                         *)

\* the records in the execution history of tool t, ts the state of the tools
Records(ts, t) == {ts[t].execution_history[i] : i \in 1..Len(ts[t].execution_history)}

\* the ids of the calls whose logic is running, ex the calls under way
Running(ex) == {ex[i].started.id : i \in 1..Len(ex)}

Terminal == {"completed", "failed"}

\* a record has the status 'started' exactly while the logic of its call runs
StartedWhileRunning ==
    \A t \in ToolInstances : \A rec \in Records(tool_state, t) :
        /\ rec.status \in {"started"} \cup Terminal
        /\ rec.status = "started" <=> rec.id \in Running(executing)

\* a step creates records as 'started', before the logic of their call has run
CreatedStarted(t) ==
    \A new \in Records(tool_state', t) :
        (\A old \in Records(tool_state, t) : old.id # new.id)
            => (new.status = "started" /\ new.id \in Running(executing') \ Running(executing))

\* a step changes the status of a record only from 'started', to 'completed'
\* when the logic returned and to 'failed' when it raised, and leaves a record
\* in a terminal status as it is
OneTransition(t) ==
    \A old \in Records(tool_state, t) : \A new \in Records(tool_state', t) :
        old.id = new.id =>
            /\ old.status \in Terminal => new = old
            /\ (old.status = "started" /\ new.status # "started") =>
                   /\ old.id \in Running(executing) \ Running(executing')
                   /\ new.status = "completed" <=> last_exec'.exc = None
                   /\ new.status = "failed" <=> last_exec'.exc # None

\* C23: an execution record is created with the status 'started' before the
\* logic of the tool runs, goes once to 'completed' (the logic returned) or to
\* 'failed' (the logic raised), has no other status and no other change of
\* status, and is never changed again once it is 'completed' or 'failed'.
C23_RecordStateMachine ==
    /\ []StartedWhileRunning
    /\ [][\A t \in ToolInstances : CreatedStarted(t) /\ OneTransition(t)]_vars

\* two calls of one tool ended, one 'completed' and one 'failed', while a third
\* call of the tool is under way
C23_Witness ==
    \E t \in ToolInstances :
        /\ \E rec \in Records(tool_state, t) : rec.status = "completed"
        /\ \E rec \in Records(tool_state, t) : rec.status = "failed"
        /\ \E rec \in Records(tool_state, t) : rec.status = "started"

---------------------------------------------------------------------------
(* One command at a time.                                                   *)

ClosingEventTypes == {"agent.after_run", "agent.error", "tool.after_use", "tool.error"}

\* the events of the given types that the last completed call published are in
\* the history of the bus
ClosingEventWritten ==
    \E i \in 1..Len(last_cmd.trace) :
        /\ last_cmd.trace[i].k = "publish"
        /\ last_cmd.trace[i].t \in ClosingEventTypes
        /\ \E j \in 1..Len(event_bus.event_history) :
              /\ event_bus.event_history[j].id = last_cmd.trace[i].n
              /\ event_bus.event_history[j].type = last_cmd.trace[i].t

\* every process_command call the loop started has completed: it has returned,
\* its session-history entry is written and, when it ran a component, so is the
\* after or error event of the run
AllCallsComplete ==
    /\ in_flight = <<>>
    /\ console.calls = last_cmd.n
    /\ Len(History) = console.calls
    /\ (last_cmd.n > 0 /\ Ran(last_cmd.trace) # <<>>) => ClosingEventWritten

\* C24: the command loop has at most one command in flight: it reads the next
\* line only when the process_command call it started before, the run of the
\* agent or tool on a worker included, has completed and the after or error
\* event and the session-history entry of the call are written.
C24_OneCommandInFlight ==
    /\ [](console.calls \in {last_cmd.n, last_cmd.n + 1})
    /\ [][console'.n # console.n => AllCallsComplete]_vars

\* a use command whose tool ran on a worker has completed, and the loop has
\* read the next line and started the call for it
C24_Witness ==
    /\ console.n = 2
    /\ last_cmd.n = 1
    /\ StepsOf(last_cmd.trace, "execute_in_worker") # <<>>
    /\ ClosingEventWritten
    /\ in_flight # <<>>

---------------------------------------------------------------------------
(* What process_command returns when nothing failed.                        *)

LastEntry == History[Len(History)]

\* the last call reached the router and the except clause of process_command
\* was not entered: no middleware set an error and nothing raised
RoutedWithoutError ==
    /\ Routed1
    /\ \A i \in 1..Len(Published(last_cmd.trace)) : Published(last_cmd.trace)[i] # "error"

\* the results of the components the last call ran, as the components
\* recorded them: Tool.execute in the execution record, Agent.run_async in the
\* memory of the agent
ToolResults == {rec.result : rec \in {r \in LastToolRecords : r.status = "completed"}}

AgentResults ==
    IF last_cmd.command = "run" /\ Ran(last_cmd.trace) # <<>>
    THEN LET h == agent_state[HelpAgent].history
         IN  IF h[Len(h)].type = "result" THEN {h[Len(h)].data.output} ELSE {}
    ELSE {}

\* C25: process_command returns the 'Error: ...' text only when an error was
\* recorded for the command: when routing completes without raising and no
\* middleware set an error, it returns exactly the result of the routed agent
\* or tool, the empty text and none included, and the session-history entry
\* holds that response and no error.
C25_ErrorTextOnlyOnError ==
    RoutedWithoutError =>
        /\ LastEntry.error = None
        /\ last_cmd.returned = LastEntry.response
        /\ \A v \in ToolResults \cup AgentResults : last_cmd.returned = v

---------------------------------------------------------------------------
(* An agent that turns its exception into a text.                           *)

HelpHistory == agent_state[HelpAgent].history

\* the last call ran the HelpAgent, an Agent, and its logic raised
AgentLogicRaised ==
    /\ Routed1
    /\ last_cmd.command = "run"
    /\ \E i \in 1..Len(Ran(last_cmd.trace)) : Ran(last_cmd.trace)[i].t = MetaName(HelpAgent)
    /\ last_cmd.outcome.kind = "raise"

\* the data of the events of a type that the last call published
DataPublished(type) ==
    {event_bus.event_history[j].data.payload :
        j \in {j \in 1..Len(event_bus.event_history) :
                  /\ event_bus.event_history[j].type = type
                  /\ \E i \in 1..Len(last_cmd.trace) :
                        /\ last_cmd.trace[i].k = "publish"
                        /\ last_cmd.trace[i].n = event_bus.event_history[j].id}}

\* C26: when the logic of an agent derived from Agent raises during
\* process_command('run', ...), the Controller publishes agent.before_run and
\* then agent.after_run with the error text of the agent as the result; it
\* publishes neither agent.error nor the event 'error', and the session-history
\* entry of the command has no error.
C26_AgentErrorIsAResult ==
    AgentLogicRaised =>
        /\ Published(last_cmd.trace) = <<"agent.before_run", "agent.after_run">>
        /\ DataPublished("agent.after_run") =
               {<<"Error in agent ", "help", ": ">> \o last_cmd.outcome.value}
        /\ LastEntry.error = None
        /\ LastEntry.response = <<"Error in agent ", "help", ": ">> \o last_cmd.outcome.value

\* the logic of the HelpAgent raised while a listener that raises is subscribed
C26_Witness ==
    /\ AgentLogicRaised
    /\ HelpHistory[Len(HelpHistory)].data.error = LogicError
    /\ StepsOf(last_cmd.trace, "callback_raised") # <<>>
    /\ last_cmd.returned = <<"Error in agent ", "help", ": ">> \o LogicError

---------------------------------------------------------------------------
(* The name index of the Registry.                                          *)

\* the id the name index holds for a name of get_names(category)
IdOfName(category, name) == ODGet(registry.categories[category], name)

\* C27: after any sequence of register calls, with a generated or a supplied
\* component_id, and unregister calls, the name index has no dangling entry:
\* for every name of get_names(category), get_by_name(category, name) returns a
\* component, not none, and the entry of the component has that category.
C27_NoDanglingName ==
    \A c \in DOMAIN registry.categories :
        \A i \in 1..Len(GetNames(registry, c)) :
            /\ GetByName(registry, c, GetNames(registry, c)[i]) # None
            /\ registry.components[IdOfName(c, GetNames(registry, c)[i])].category = c

---------------------------------------------------------------------------
(* Agents with required tools in a Controller as constructed.               *)

\* the agents whose metadata names required tools
GatedAgents == {a \in AgentInstances : RequiredTools(a) # {}}

\* the last call was run with args whose first word names the agent a
RunOf(a) ==
    /\ Routed1
    /\ last_cmd.command = "run"
    /\ Split(last_cmd.args, 1) # <<>>
    /\ GetAgent(registry, Lower(Split(last_cmd.args, 1)[1])) = a

---------------------------------------------------------------------------
(* tool.error and the execution history of the tool.                        *)

\* the last call published tool.error
ToolErrorPublished ==
    /\ last_cmd.n > 0
    /\ \E i \in 1..Len(Published(last_cmd.trace)) : Published(last_cmd.trace)[i] = "tool.error"

\* C29: whenever the Controller publishes tool.error for a 'use tool' command,
\* the tool was invoked for the command: its execution history gained a record
\* for the call, and the record has the status 'failed'.
C29_ToolErrorMeansToolRan ==
    ToolErrorPublished =>
        /\ LastToolRecords # {}
        /\ \A rec \in LastToolRecords : rec.status = "failed"

---------------------------------------------------------------------------
(* What Registry.unregister changes.                                        *)

\* the name index maps (category, name) to the id
PointsTo(reg, k, id) ==
    IsRegistered(reg, k[1], k[2]) /\ ODGet(reg.categories[k[1]], k[2]) = id

\* unregister of an id that is not in the id table
UnknownIdFrame == ~last_reg'.ok /\ registry' = registry

\* unregister of an id that is in the id table
KnownIdFrame(id) ==
    /\ last_reg'.ok
    /\ RegistryGet(registry', id) = None
    /\ \A j \in DOMAIN registry.components \ {id} :
          RegistryGet(registry', j) = RegistryGet(registry, j)
    /\ \A k \in RegKeys :
          IF PointsTo(registry, k, id)
          THEN /\ ~IsRegistered(registry', k[1], k[2])
               /\ GetByName(registry', k[1], k[2]) = None
          ELSE /\ IsRegistered(registry', k[1], k[2]) <=> IsRegistered(registry, k[1], k[2])
               /\ GetByName(registry', k[1], k[2]) = GetByName(registry, k[1], k[2])

\* C30: unregister(id) with an id that is not in the id table returns false and
\* changes nothing; with a known id it returns true, get(id) is none afterwards
\* and a (category, name) mapping is removed exactly when it points to the id:
\* unregistering the stale id of a re-registered name leaves get_by_name
\* returning the newer component, unregistering the current id makes
\* get_by_name return none, with no fall-back to the stale entry.
C30_UnregisterFrame ==
    [][last_reg'.op = "unregister" =>
          IF last_reg'.id \in DOMAIN registry.components
          THEN KnownIdFrame(last_reg'.id)
          ELSE UnknownIdFrame]_vars

---------------------------------------------------------------------------
(* The dependency check of an agent over several calls.                     *)

\* the step is a run or run_async call on the agent a
RunStep(a) == last_exec'.n = last_exec.n + 1 /\ last_exec'.inst = a

\* the call of the step executed the logic of a
Executes(a) ==
    /\ Ran(last_exec'.trace) # <<>>
    /\ agent_state'[a].dependencies_checked

\* the call of the step returned the missing-dependencies text and ran nothing
Refuses(a) ==
    /\ Ran(last_exec'.trace) = <<>>
    /\ last_exec'.exc = None
    /\ last_exec'.val = MissingDependencies(a)
    /\ ~agent_state'[a].dependencies_checked

\* C31: the dependency check of an agent is verify-once.  After one run or
\* run_async call in which all required tools were present, every later call
\* skips the check and executes, even if a required tool has since been taken
\* off the agent; a failed check is not cached: the check is made again on
\* each later call until it succeeds.
C31_VerifyOnce ==
    [][\A a \in AgentInstances :
          /\ ~RunStep(a) =>
                agent_state'[a].dependencies_checked = agent_state[a].dependencies_checked
          /\ RunStep(a) =>
                IF agent_state[a].dependencies_checked
                THEN Executes(a)
                ELSE IF RequiredTools(a) \subseteq agent_state[a].tools
                     THEN Executes(a)
                     ELSE Refuses(a)]_vars

\* both tools were registered and the first call ran; the command tool was
\* taken off, and the second call ran with the file tool alone
C31_Witness ==
    /\ last_exec.n = 2
    /\ last_exec.inst = CodeAgent
    /\ last_exec.attached = {"file"}
    /\ Ran(last_exec.trace) # <<>>
    /\ agent_state[CodeAgent].dependencies_checked
    /\ Len(agent_state[CodeAgent].history) = 4

---------------------------------------------------------------------------
(* A middleware that raises.                                                *)

\* the data of the events of type error the last call published
ErrorEventData ==
    {event_bus.event_history[j].data :
        j \in {j \in 1..Len(event_bus.event_history) :
                  /\ event_bus.event_history[j].type = "error"
                  /\ \E i \in 1..Len(last_cmd.trace) :
                        /\ last_cmd.trace[i].k = "publish"
                        /\ last_cmd.trace[i].n = event_bus.event_history[j].id}}

\* what the claim says of a raising middleware, but for the value returned
RaiseContained(i) ==
    /\ last_cmd.exc = None
    /\ Cardinality(PublishSteps(last_cmd.trace, {"error"})) = 1
    /\ ErrorEventData = {EventData(<<last_cmd.command>>, last_cmd.args, MiddlewareError)}
    /\ NoneAfter(last_cmd.trace, i, "middleware")
    /\ RouterNotReached(last_cmd.trace)
    /\ Len(History) = last_cmd.n
    /\ LastEntry.command = last_cmd.command
    /\ LastEntry.args = last_cmd.args
    /\ LastEntry.error = MiddlewareError

\* C32: when a middleware raises, the exception is caught, its message becomes
\* the error of the context, exactly one event of type error with the message,
\* the command and the args is published, no later middleware and no routing
\* runs, the entry of the session history is still appended, and
\* process_command returns "Error: " and the message.
C32_RaisingMiddleware ==
    \A i \in MiddlewareSteps(last_cmd.trace, "raise") :
        /\ RaiseContained(i)
        /\ last_cmd.returned = <<"Error: ">> \o MiddlewareError

---------------------------------------------------------------------------
(* The order of the callbacks of one publish call.                          *)

\* the event type of the subscription with this id
TypeOfSubscription(id) ==
    (CHOOSE s \in {issued[i] : i \in 1..Len(issued)} : s.id = id).event_type

\* the subscription was made for the type of the event published last
IsExact(id) == TypeOfSubscription(id) = last_bus.event.type

\* the subscription was made for '*'
IsWildcard(id) == TypeOfSubscription(id) = Wildcard

\* C33: within one publish call every subscriber to the type of the event is
\* invoked before any subscriber to '*', whenever each of them subscribed, and
\* within each of the two groups the callbacks are invoked in the order of
\* their subscriptions.
C33_ExactBeforeWildcard ==
    PublishDone =>
        \A p, q \in 1..Len(Invoked(last_bus.trace)) :
            LET a == Invoked(last_bus.trace)[p]
                b == Invoked(last_bus.trace)[q]
            IN  /\ (a # b /\ IsExact(a) /\ IsWildcard(b)) => p < q
                /\ (p < q /\ IsExact(a) /\ IsExact(b)) => a < b
                /\ (p < q /\ IsWildcard(a) /\ IsWildcard(b)) => a < b

---------------------------------------------------------------------------
(* Callbacks that subscribe and unsubscribe while an event is delivered.    *)

\* the step is a publish call
PublishStep == next_uuid'.event = next_uuid.event + 1

\* C34: the callbacks invoked for one published event are fixed when the
\* delivery starts.  A callback that subscribes or unsubscribes, itself or
\* another subscription, during the delivery does not change which callbacks
\* are invoked for the event: they are those subscribed when publish was
\* called, none skipped and none invoked once more; the change shows from the
\* next publish on.
C34_DeliveryListFixed ==
    [][PublishStep =>
          Invoked(last_bus'.trace) =
              SubscribedTo(last_bus'.event.type) \o SubscribedTo(Wildcard)]_vars

\* a callback unsubscribed a subscription that was then still invoked, and one
\* subscribed a callback that was not invoked for this event
C34_Witness ==
    /\ PublishDone
    /\ \E i, j \in 1..Len(last_bus.trace) :
          /\ i < j
          /\ last_bus.trace[i].k = "unsubscribed"
          /\ last_bus.trace[j].k = "callback"
          /\ last_bus.trace[j].n = last_bus.trace[i].n
    /\ \E i \in 1..Len(last_bus.trace) :
          /\ last_bus.trace[i].k = "subscribed"
          /\ TimesInvoked(last_bus.trace, last_bus.trace[i].n) = 0

---------------------------------------------------------------------------
(* Reading the event history back.                                          *)

\* the events of the history that match the filter of the call, in publish order
Matching(history, filter) ==
    IF filter = NoType THEN history ELSE SelectSeq(history, LAMBDA e : e.type = filter)

\* the most recent n of them
MostRecent(seq, n) == SubSeq(seq, Len(seq) - n + 1, Len(seq))

\* C35: get_recent_events(type, limit) is read-only and returns at most limit
\* events: the most recent min(limit, k) of the k events of the history that
\* match the filter (all events when no type is given), in publish order, for
\* every limit >= 0; the history is as it was before the call.
C35_RecentEvents ==
    [][last_bus'.op = "get_recent_events" =>
          /\ event_bus' = event_bus
          /\ Len(last_bus'.events) <= last_bus'.limit
          /\ last_bus'.events =
                MostRecent(Matching(event_bus.event_history, last_bus'.filter),
                           Min(last_bus'.limit,
                               Len(Matching(event_bus.event_history, last_bus'.filter))))]_vars

---------------------------------------------------------------------------
(* The order of the middleware of one command.                              *)

\* the steps of the last call at which a middleware was invoked, in order
MiddlewareCalls == StepsOf(last_cmd.trace, "middleware")

\* the positions in the trace of the last call at which a middleware was invoked
MiddlewarePositions == {i \in 1..Len(last_cmd.trace) : last_cmd.trace[i].k = "middleware"}

\* the middleware invoked at position i has finished at the next step
FinishedNext(i) ==
    /\ i < Len(last_cmd.trace)
    /\ last_cmd.trace[i + 1].k \in {"middleware_returned", "middleware_raised"}
    /\ last_cmd.trace[i + 1].n = last_cmd.trace[i].n

\* C36: within one process_command call the registered middleware are invoked
\* strictly in registration order, each at most once, and each one finishes
\* before the next one starts; routing starts only after the last middleware
\* invoked has finished.
C36_MiddlewareInOrder ==
    last_cmd.n > 0 =>
        /\ Len(MiddlewareCalls) <= Len(middleware_pipeline)
        /\ \A j \in 1..Len(MiddlewareCalls) :
              /\ MiddlewareCalls[j].n = j
              /\ MiddlewareCalls[j].t = middleware_pipeline[j]
        /\ \A i \in MiddlewarePositions : FinishedNext(i)
        /\ \A i \in MiddlewarePositions, r \in 1..Len(last_cmd.trace) :
              last_cmd.trace[r].k = "route" => i + 1 < r

\* two middleware were registered, both were invoked, the first before the
\* second, and the command was routed after them
C36_Witness ==
    /\ Len(MiddlewareCalls) = 2
    /\ MiddlewareCalls[1].n = 1
    /\ MiddlewareCalls[2].n = 2
    /\ Routed1

---------------------------------------------------------------------------
(* unsubscribe and the subscriptions it leaves alone.                       *)

\* the ids of the subscriptions a bus holds
SubscribedIds(bus) ==
    UNION {{bus.subscriptions[t][i].id : i \in 1..Len(bus.subscriptions[t])} :
              t \in DOMAIN bus.subscriptions}

\* the bucket of a type without the subscription that has this id
Without(bucket, id) == SelectSeq(bucket, LAMBDA s : s.id # id)

\* unsubscribe of a subscription the bus holds: it is gone, its bucket too if it
\* was the last in it, and the others are where they were
Removed(sub) ==
    /\ last_bus'.ok
    /\ sub.id \notin SubscribedIds(event_bus')
    /\ DOMAIN event_bus'.subscriptions =
          {t \in DOMAIN event_bus.subscriptions :
              Without(event_bus.subscriptions[t], sub.id) # <<>>}
    /\ \A t \in DOMAIN event_bus'.subscriptions :
          event_bus'.subscriptions[t] = Without(event_bus.subscriptions[t], sub.id)
    /\ event_bus'.event_history = event_bus.event_history

\* C37: unsubscribe(subscription) removes the subscription with that id and
\* returns true, and no later publish invokes its callback; it removes the
\* bucket of the type when the bucket becomes empty; it returns false and
\* changes nothing when the subscription is not present (an id the bus does not
\* know, or one unsubscribed before); the other subscriptions and their order
\* are as they were.
C37_UnsubscribeFrame ==
    [][/\ last_bus'.op = "unsubscribe" =>
             IF last_bus'.sub.id \in SubscribedIds(event_bus)
             THEN Removed(last_bus'.sub)
             ELSE ~last_bus'.ok /\ event_bus' = event_bus
       /\ PublishStep =>
             \A j \in 1..Len(Invoked(last_bus'.trace)) :
                 Invoked(last_bus'.trace)[j] \in SubscribedIds(event_bus)]_vars

\* the one subscription of a type was unsubscribed and the bucket of the type
\* is gone, while a subscription to another type is still there
C37_Witness ==
    /\ last_bus.op = "unsubscribe"
    /\ last_bus.ok
    /\ last_bus.sub.event_type \notin DOMAIN event_bus.subscriptions
    /\ DOMAIN event_bus.subscriptions # {}

---------------------------------------------------------------------------
(* Calls of execute_async on one tool that overlap.                         *)

\* the ids of the calls that end in the step
Ended == Running(executing) \ Running(executing')

\* the status the record of a call takes when the call ends as the step says
ClosingStatus == IF last_exec'.exc = None THEN "completed" ELSE "failed"

\* the step leaves every record where it is in the history, closes the record
\* of the call that ends and changes no other record
ClosesItsOwn(t) ==
    /\ Len(tool_state'[t].execution_history) = Len(tool_state[t].execution_history)
    /\ \A i \in 1..Len(tool_state[t].execution_history) :
          LET old == tool_state[t].execution_history[i]
              new == tool_state'[t].execution_history[i]
          IN  /\ new.id = old.id
              /\ IF old.id \in Ended
                 THEN old.status = "started" /\ new.status = ClosingStatus
                 ELSE new = old

\* C38: when several execute_async calls on one Tool overlap (interleave at
\* their awaits), each call closes its own record and no other: the record with
\* the execution id of a call that ended, if still in execution_history, has
\* the status 'completed' if and only if the call returned and 'failed' if and
\* only if it raised, and the history holds at most 50 records in every
\* interleaving.
C38_OverlappingCalls ==
    /\ [](\A t \in ToolInstances : Len(tool_state[t].execution_history) <= ToolMaxHistory)
    /\ [][Ended # {} => \A t \in ToolInstances : ClosesItsOwn(t)]_vars

\* the history is full, and of two calls that overlapped the one begun later
\* has ended, in failure, while the one begun first is still at its await
C38_Witness ==
    /\ Len(tool_state[CommandTool].execution_history) = ToolMaxHistory
    /\ \E a, b \in Records(tool_state, CommandTool) :
          /\ a.id < b.id
          /\ a.status = "started"
          /\ b.status = "failed"

---------------------------------------------------------------------------
(* The order of get_names.                                                  *)

\* the names of the sequence, as a set
NamesIn(names) == {names[i] : i \in 1..Len(names)}

\* get_names(c) lists each name once, and lists the names that are registered:
\* those get_by_name(c, name) finds a component for
ListsRegistered(reg, c) ==
    /\ \A i, j \in 1..Len(GetNames(reg, c)) :
          i # j => GetNames(reg, c)[i] # GetNames(reg, c)[j]
    /\ \A n \in NamesIn(GetNames(reg, c)) : GetByName(reg, c, n) # None

\* a register call leaves the names listed where they are and puts a name not
\* listed before at the end
RegisterKeepsOrder(c) ==
    \/ GetNames(registry', c) = GetNames(registry, c)
    \/ \E n \in NamesIn(GetNames(registry', c)) \ NamesIn(GetNames(registry, c)) :
          GetNames(registry', c) = Append(GetNames(registry, c), n)

\* an unregister call takes names away and leaves the others in their order
UnregisterKeepsOrder(c) ==
    GetNames(registry', c) =
        SelectSeq(GetNames(registry, c), LAMBDA n : n \in NamesIn(GetNames(registry', c)))

\* C39: get_names(category) returns the names registered in the category at the
\* time of the call, each exactly once, in the order in which the names were
\* first put into the category map: registering a name again keeps its place,
\* and a name that was unregistered and is registered again goes to the end.
C39_NamesInInsertionOrder ==
    /\ [](\A c \in {"agent", "tool"} : ListsRegistered(registry, c))
    /\ [][\A c \in {"agent", "tool"} :
             /\ last_reg'.op = "register" => RegisterKeepsOrder(c)
             /\ last_reg'.op = "unregister" => UnregisterKeepsOrder(c)]_vars

====
